---- MODULE Spec2Model ----
(***************************************************************************)
(* The download engine of TdsBitTorrentDownloader: the resume scan         *)
(* (client/src/downloader/init.rs), the manager loop and the peer sessions *)
(* it spawns (client/src/downloader/manager.rs), over the shared PieceMap, *)
(* output file, byte counter, connected-set, candidate queue, semaphore    *)
(* and completion broadcast channel.                                       *)
(*                                                                         *)
(* Granularity.  Every shared structure is behind a tokio Mutex, so a      *)
(* critical section is one atomic step.  One iteration of a session's loop *)
(* (select, the message handler, the piece-selection step and the Requests *)
(* it sends) is one action: between two awaits of an iteration a session   *)
(* only touches its own locals or state it holds the mutex of.             *)
(*                                                                         *)
(* Data.  The content of the file region of piece i is "orig" (the bytes   *)
(* the torrent was made from) or "junk" (anything else); SHA-1 is taken to *)
(* be collision free.                                                      *)
(***************************************************************************)
EXTENDS Integers, Sequences, FiniteSets, TLC

(* ------------------------------ bounds -------------------------------- *)

\* Number of pieces of the torrent (torrent.pieces.len()).
NumPieces == 2

\* Number of distinct peer endpoints the address sources can emit.
NumPeers == 2

\* Number of sessions the manager spawns in one run (length of `handles`).
MaxSessions == 2

\* Candidates that may wait in the peer channel at once.
MaxQueue == 1

\* check_existing_data may run while downloaded_bytes stays within
\* MaxScans * total_length.
MaxScans == 2

\* piece_length, in blocks.
BlocksPerPiece == 1

(* ------------------------- program constants -------------------------- *)

\* manager.rs:406  let block_size = 16384;
block_size == 16384

\* manager.rs:111  Semaphore::new(50)
SemaphorePermits == 50

(* ------------------------------ torrent ------------------------------- *)

Pieces == 0 .. (NumPieces - 1)
Peers == 1 .. NumPeers
Sessions == 1 .. MaxSessions
\* The tasks that take the shared mutexes: the session tasks, the resume
\* scan that start_download awaits, and a caller of get_status.
ScanTask == MaxSessions + 1
StatusTask == MaxSessions + 2
Tasks == Sessions \cup {ScanTask, StatusTask}
Contents == {"orig", "junk"}

piece_count == NumPieces
piece_length == BlocksPerPiece * block_size
\* The last piece is one block long, every other piece piece_length.
total_length == (NumPieces - 1) * piece_length + block_size

\* SHA-1 of the bytes `content` found at the place of piece i.
Sha1(i, content) == <<"sha1", i, content>>

\* torrent.pieces: the digest of each piece of the original content.
pieces == [i \in Pieces |-> Sha1(i, "orig")]

\* The natural length of piece i (init.rs:117-126, manager.rs:398-403).
PieceLen(i) ==
    IF i = piece_count - 1
    THEN LET rem == total_length % piece_length
         IN  IF rem = 0 THEN piece_length ELSE rem
    ELSE piece_length

\* manager.rs:407
BlocksTotal(p_len) == (p_len + block_size - 1) \div block_size

RECURSIVE SumLen(_)
SumLen(S) ==
    IF S = {} THEN 0
    ELSE LET i == CHOOSE x \in S : TRUE
         IN  PieceLen(i) + SumLen(S \ {i})

(* ------------------------- peer wire: the data ------------------------ *)

\* Frames that may be in flight on the stream at once.
MaxFrames == 2

\* has_piece is examined for the indices 0 .. MaxIndex.
MaxIndex == 17

\* Length of the PieceMap an entry Bitfield is built from.
NumStatus == 10

Bytes == 0 .. 255

Pow2(k) == 2 ^ k

\* tokio write_u32 / read_u32: four bytes, big-endian.
write_u32(n) ==
    <<(n \div Pow2(24)) % 256, (n \div Pow2(16)) % 256,
      (n \div Pow2(8)) % 256, n % 256>>

read_u32(b) == ((b[1] * 256 + b[2]) * 256 + b[3]) * 256 + b[4]

Take(b, n) == SubSeq(b, 1, n)
Drop(b, n) == SubSeq(b, n + 1, Len(b))

\* peer/mod.rs:10-83 Message; the fields a variant lacks are 0 and <<>>.
Msg(kind, index, begin, length, id, data) ==
    [kind |-> kind, index |-> index, begin |-> begin, length |-> length,
     id |-> id, data |-> data]

KeepAlive == Msg("KeepAlive", 0, 0, 0, 0, <<>>)
Choke == Msg("Choke", 0, 0, 0, 0, <<>>)
Unchoke == Msg("Unchoke", 0, 0, 0, 0, <<>>)
Interested == Msg("Interested", 0, 0, 0, 0, <<>>)
NotInterested == Msg("NotInterested", 0, 0, 0, 0, <<>>)
Have(index) == Msg("Have", index, 0, 0, 0, <<>>)
Bitfield(data) == Msg("Bitfield", 0, 0, 0, 0, data)
Request(index, begin, length) == Msg("Request", index, begin, length, 0, <<>>)
Piece(index, begin, block) == Msg("Piece", index, begin, 0, 0, block)
Cancel(index, begin, length) == Msg("Cancel", index, begin, length, 0, <<>>)
Extended(id, payload) == Msg("Extended", 0, 0, 0, id, payload)

\* The Err of read_message and of connect.
Err == Msg("Err", 0, 0, 0, 0, <<>>)

\* PieceMaps of length NumStatus: nothing Have, and Have pieces at both
\* ends of the first byte and in the second.
StatusVectors ==
    {[i \in 1 .. NumStatus |-> IF (i - 1) \in S THEN "Have" ELSE "Missing"] :
        S \in {{}, {0}, {7, 8}, {0, 9}}}

(* manager.rs:158-165: the Bitfield built from the PieceMap, piece by      *)
(* piece: bitfield[i / 8] |= 1 << (7 - i % 8) for every piece that is Have.*)
SetBit(byte, k) ==
    IF (byte \div Pow2(k)) % 2 = 1 THEN byte ELSE byte + Pow2(k)

RECURSIVE EmitFrom(_, _, _)
EmitFrom(st, i, bf) ==
    IF i >= Len(st) THEN bf
    ELSE IF st[i + 1] = "Have"
         THEN EmitFrom(st, i + 1,
                       [bf EXCEPT ![(i \div 8) + 1] = SetBit(@, 7 - (i % 8))])
         ELSE EmitFrom(st, i + 1, bf)

EmitBitfield(st) ==
    EmitFrom(st, 0, [j \in 1 .. ((Len(st) + 7) \div 8) |-> 0])

\* The messages send_message is called with: every variant.
Messages ==
    {KeepAlive, Choke, Unchoke, Interested, NotInterested,
     Have(0), Have(9), Bitfield(<<1, 64>>), Request(1, 16384, 131072),
     Piece(0, 258, <<7, 200>>), Cancel(1, 16384, 16384),
     Extended(3, <<100, 101>>)}

\* The Bitfield messages built from the PieceMaps.
EntryBitfields == {Bitfield(EmitBitfield(st)) : st \in StatusVectors}

\* b"BitTorrent protocol"
ProtocolString ==
    <<66, 105, 116, 84, 111, 114, 114, 101, 110, 116, 32,
      112, 114, 111, 116, 111, 99, 111, 108>>

\* torrent.info_hash, and a hash that differs from it in its last byte.
info_hash == [i \in 1 .. 20 |-> i]
OtherHash == [i \in 1 .. 20 |-> IF i = 20 THEN 99 ELSE i]

\* The remote ids of the handshake replies.
RemoteIds == <<[i \in 1 .. 20 |-> 100 + i], [i \in 1 .. 20 |-> 200 + i]>>

\* peer/mod.rs:181-190: the connection connect returns.
NewConnection(id) ==
    [peer_id |-> id, peer_choking |-> TRUE, peer_interested |-> FALSE,
     bitfield |-> <<>>]

\* peer/mod.rs:88-108 PeerConnection (am_choking and am_interested are
\* never written after connect and are left out).
Connections ==
    [peer_id : Seq(Bytes), peer_choking : BOOLEAN, peer_interested : BOOLEAN,
     bitfield : Seq(Bytes)]

(* ---------------------------- upload: the data ------------------------ *)

\* uploaded_bytes is followed up to this many bytes.
MaxUploaded == 524288

\* TokenBucket::new(2_000_000.0, 2_000_000.0), manager.rs:108
capacity == 2000000
refill_rate == 2000000

(* The torrents served: pieces of 256 KiB, all Have; pieces of 128 KiB     *)
(* with a last piece of 16 KiB, all Have; the same with the last Missing;  *)
(* the same with the first InProgress.                                     *)
Torrents ==
    {[piece_length |-> 262144, total_length |-> 524288,
      status |-> <<"Have", "Have">>],
     [piece_length |-> 131072, total_length |-> 147456,
      status |-> <<"Have", "Have">>],
     [piece_length |-> 131072, total_length |-> 147456,
      status |-> <<"Have", "Missing">>],
     [piece_length |-> 131072, total_length |-> 147456,
      status |-> <<"Have", "InProgress">>]}

\* The Requests a peer sends.
RequestIndexes == {0, 1, 2}
RequestBegins == {0, 16384}
RequestLengths == {64 * 1024, 128 * 1024, 128 * 1024 + 1}

\* The outcomes of the Request handler.
Handled ==
    [index : RequestIndexes, begin : RequestBegins, length : RequestLengths,
     piece : BOOLEAN, offset : Nat, open : BOOLEAN,
     how : {"too_large", "not_have", "read_err", "send_err", "sent"}]

(* ------------------------- token bucket: the data --------------------- *)

\* The clock is followed for this many ticks.
MaxTime == 5

\* TokenBucket::new(capacity, refill_rate), refill_rate in tokens per tick.
BucketShapes == {<<4, 1>>, <<3, 2>>}

\* The amounts consume is called with: `length as f64` of an unsigned
\* length, from nothing to more than any bucket holds.
Amounts == 0 .. 5

TokenBuckets ==
    [capacity : {sh[1] : sh \in BucketShapes}, tokens : Nat,
     refill_rate : {sh[2] : sh \in BucketShapes}, last_refill : 0 .. MaxTime]

Tallies ==
    [consumed : Nat, created : 0 .. MaxTime,
     emptied : {<<>>} \cup {<<t>> : t \in 0 .. MaxTime}]

\* The bucket the sessions share is followed on a clock whose tick is
\* 65.536 ms: the tokens refill_rate gives in one tick, the ticks after
\* which an empty bucket is full again, and the ticks of sleep(100 ms),
\* which ends at the first tick not before its 100 ms.
PerTick == (refill_rate \div 1000000) * 65536
FullTicks == capacity \div PerTick + 1
SleepTicks == (100000 + 65535) \div 65536

\* The lengths of the Requests the sessions serve (at most 128 * 1024).
ServeLengths == {64 * 1024, 128 * 1024}

(* ---------------------------- bencoding: the data --------------------- *)

\* enum Bencode, decoder.rs:8-17.  A mapping is kept as BTreeMap iterates
\* it: the sequence of its <<key, value>> entries in key order.
Ben(tag, int, bytes, items) ==
    [tag |-> tag, int |-> int, bytes |-> bytes, items |-> items]

BInt(i) == Ben("Int", i, <<>>, <<>>)
BBytes(b) == Ben("Bytes", 0, b, <<>>)
BList(l) == Ben("List", 0, <<>>, l)
BDict(d) == Ben("Dict", 0, <<>>, d)

\* Ord of Vec<u8>: byte by byte, a proper prefix first.
RECURSIVE BytesLess(_, _)
BytesLess(a, b) ==
    IF b = <<>> THEN FALSE
    ELSE IF a = <<>> THEN TRUE
    ELSE IF Head(a) # Head(b) THEN Head(a) < Head(b)
    ELSE BytesLess(Tail(a), Tail(b))

\* A BTreeMap::insert that puts the entry behind all the others.
InsertLast(d, key, val) ==
    IF \E k \in 1 .. Len(d) : d[k][1] = key
    THEN [k \in 1 .. Len(d) |-> IF d[k][1] = key THEN <<key, val>> ELSE d[k]]
    ELSE Append(d, <<key, val>>)

\* BTreeMap::insert: the entry replaces the one with the same key, or goes
\* to its place in key order.
insert(d, key, val) ==
    IF \E k \in 1 .. Len(d) : d[k][1] = key
    THEN [k \in 1 .. Len(d) |-> IF d[k][1] = key THEN <<key, val>> ELSE d[k]]
    ELSE LET before == Cardinality({k \in 1 .. Len(d) : BytesLess(d[k][1], key)})
         IN  SubSeq(d, 1, before) \o <<<<key, val>>>> \o SubSeq(d, before + 1, Len(d))

\* The map made by inserting the entries one after the other.
RECURSIVE FromEntries(_)
FromEntries(es) ==
    IF es = <<>> THEN <<>>
    ELSE insert(FromEntries(SubSeq(es, 1, Len(es) - 1)),
                es[Len(es)][1], es[Len(es)][2])

\* BTreeMap::get: <<>> is None, <<v>> is Some(v).
get(d, key) ==
    IF \E k \in 1 .. Len(d) : d[k][1] = key
    THEN <<d[CHOOSE k \in 1 .. Len(d) : d[k][1] = key][2]>>
    ELSE <<>>

\* The values the codec is run on: integers of either sign and of one and
\* two digits, byte strings from empty to two-digit length, lists and
\* mappings of them, entered in every order, and one level of nesting.
CodecInts == {0 - 12, 0 - 1, 0, 7, 42}
CodecKeys == {<<>>, <<97>>, <<97, 98>>, <<98>>}
CodecStrings == CodecKeys \cup {<<104, 101, 108, 108, 111>>, [i \in 1 .. 11 |-> 120]}
Leaves == {BInt(i) : i \in CodecInts} \cup {BBytes(b) : b \in CodecStrings}
FewLeaves == {BInt(1), BBytes(<<99>>)}
Lists ==
    {BList(<<>>)} \cup {BList(<<x>>) : x \in Leaves}
        \cup {BList(<<x, y>>) : x \in FewLeaves, y \in Leaves}
Dicts ==
    {BDict(<<>>)}
        \cup {BDict(FromEntries(<<<<k, x>>>>)) : k \in CodecKeys, x \in FewLeaves}
        \cup {BDict(FromEntries(<<<<k, x>>, <<j, y>>>>)) :
                 k \in CodecKeys, j \in CodecKeys, x \in FewLeaves, y \in FewLeaves}
Nested ==
    {BList(<<x, y>>) : x \in {BList(<<BInt(1)>>), BDict(<<>>)},
                       y \in {BDict(FromEntries(<<<<<<98>>, BInt(7)>>, <<<<97>>, BList(<<>>)>>>>))}}
        \cup {BDict(FromEntries(<<<<<<98>>, x>>, <<<<97, 98>>, y>>, <<<<97>>, BInt(1)>>>>)) :
                 x \in {BList(<<BInt(1), BBytes(<<97>>)>>), BDict(<<<<<<97>>, BInt(1)>>>>)},
                 y \in {BInt(0 - 1), BDict(<<>>)}}
Values == Leaves \cup Lists \cup Dicts \cup Nested

(* ---------------------------- magnet: the data ------------------------ *)

\* The 60 s deadline of resolve, in clock ticks.
Deadline == 2

\* A metadata buffer has at most this many pieces of 16 KiB.
MaxMetaPieces == 2

MetaPeers == {1, 2}

\* The info dictionary the magnet link stands for, piece by piece; 0 is a
\* piece of the zeroes the buffer starts with, 3 a piece of anything else.
InfoDict == <<1, 2>>
MetaPieces == {0, 1, 2, 3}

\* SHA-1 of a buffer.
Sha1Of(buffer) == <<"sha1", buffer>>

\* The info hash parsed from the magnet link.
MagnetHash == Sha1Of(InfoDict)

\* The data a ut_metadata data message carries behind its header: one
\* piece, nothing, or more than one piece.
MetaData == {<<>>, <<1>>, <<2>>, <<3>>, <<1, 2>>}

Fetch(pc_, id, num, buffer, received) ==
    [pc |-> pc_, ut_metadata_id |-> id, num_pieces |-> num,
     metadata |-> buffer, received_pieces |-> received]

Idle == Fetch("idle", 0, 0, <<>>, 0)

Fetches ==
    [pc : {"idle", "connect", "handshake", "download", "sending", "done", "failed"},
     ut_metadata_id : 0 .. 255, num_pieces : 0 .. MaxMetaPieces,
     metadata : Seq(MetaPieces), received_pieces : 0 .. MaxMetaPieces]

(* ---------------------------- peer id: the data ----------------------- *)

\* The handshakes followed.
MaxHandshakes == 2

\* b"-TD0001-"
Tag == <<45, 84, 68, 48, 48, 48, 49, 45>>

\* What rng.fill leaves in a [u8; 20].
RandomIds ==
    {[i \in 1 .. 20 |-> 0], [i \in 1 .. 20 |-> 255],
     [i \in 1 .. 20 |-> (37 * i) % 256], [i \in 1 .. 20 |-> 45 + i]}

\* init.rs:42-49: id[..8].copy_from_slice(b"-TD0001-") on the random id.
PeerId(id) == [i \in 1 .. 20 |-> IF i <= 8 THEN Tag[i] ELSE id[i]]

\* peer/mod.rs:156-163: the 68 bytes connect writes.
Handshake(hash, client_id) ==
    <<19>> \o ProtocolString \o [i \in 1 .. 8 |-> IF i = 6 THEN 16 ELSE 0]
        \o hash \o client_id

(* ---------------------------- session entry: the data ----------------- *)

\* The calls of send_message followed.
MaxSends == 5

\* The pieces other sessions store while this one enters.
EntryPieces == {0, 9}

\* A call of send_message and whether it returned Ok.
Sent(m, ok) == [msg |-> m, ok |-> ok]

(* ---------------------------- blocks: the data ------------------------ *)

(* The torrents downloaded block by block: a last piece as long as the     *)
(* others, one byte longer than a block, shorter than a block, and a       *)
(* piece_length that is no multiple of the block size.                     *)
Shapes ==
    {[piece_length |-> 32768, total_length |-> 65536],
     [piece_length |-> 32768, total_length |-> 49153],
     [piece_length |-> 16384, total_length |-> 21384],
     [piece_length |-> 40000, total_length |-> 40100]}

\* torrent.pieces.len(): one digest for every piece_length bytes or part.
PieceCount(t) == (t.total_length + t.piece_length - 1) \div t.piece_length

\* manager.rs:398-403: p_len of piece i.
PLen(t, i) ==
    IF i = PieceCount(t) - 1
    THEN LET rem == t.total_length % t.piece_length
         IN  IF rem = 0 THEN t.piece_length ELSE rem
    ELSE t.piece_length

(* manager.rs:410-424: the Requests of the `for b in 0..blocks_total`,     *)
(* from block b on.                                                        *)
RECURSIVE RequestsFrom(_, _, _)
RequestsFrom(i, p_len, b) ==
    IF b >= BlocksTotal(p_len) THEN <<>>
    ELSE LET begin == b * block_size
             len == IF begin + block_size > p_len THEN p_len - begin ELSE block_size
         IN  <<Request(i, begin, len)>> \o RequestsFrom(i, p_len, b + 1)

\* Message::Piece { index, begin, block }: the block by its length and bytes.
Inb(index, begin, len, content) ==
    [index |-> index, begin |-> begin, len |-> len, content |-> content]

\* A copy_from_slice into the buffer: where, how many bytes, whose bytes.
Write(begin, len, content) == [begin |-> begin, len |-> len, content |-> content]

(* The content of byte x of a buffer created by vec![0u8; ..] after the    *)
(* writes ws: that of the last write over x, "zero" where none was.        *)
ContentAt(ws, x) ==
    LET over == {k \in 1 .. Len(ws) : ws[k].begin <= x /\ x < ws[k].begin + ws[k].len}
    IN  IF over = {} THEN "zero"
        ELSE ws[CHOOSE k \in over : \A j \in over : j <= k].content

\* The bytes of a buffer at which its content may change.
Breaks(ws, data_len) ==
    {x \in {0} \cup {ws[k].begin : k \in 1 .. Len(ws)}
              \cup {ws[k].begin + ws[k].len : k \in 1 .. Len(ws)} : x < data_len}

\* Every byte of the buffer was written by the peer.
Filled(ws, data_len) == \A x \in Breaks(ws, data_len) : ContentAt(ws, x) # "zero"

(* manager.rs:283-287: the digest of the buffer is that of the piece; the  *)
(* original bytes of a piece are taken not to be zeroes.                   *)
BufferMatches(ws, data_len) ==
    \A x \in Breaks(ws, data_len) : ContentAt(ws, x) = "orig"

(* ------------------------------- state -------------------------------- *)

VARIABLES
    piece_status,       \* Downloader.piece_status: Vec<PieceStatus>
    file,               \* content of each piece region of the output file
    downloaded_bytes,   \* Downloader.downloaded_bytes
    mgr,                \* where the Downloader is: init, running, completed, interrupted, panicked
    request_left,       \* TrackerRequest.left computed when run starts
    peer_rx,            \* the mpsc channel of candidate endpoints
    connected_peers,    \* the connected-set
    handles,            \* number of session tasks spawned
    completion_rx,      \* the manager's broadcast receiver holds a value
    rx,                 \* rx[s]: session s's broadcast receiver holds a value
    permits,            \* free permits of the semaphore
    pc,                 \* pc[s]: where session task s is
    addr,               \* addr[s]: peer_addr of session s (0: not spawned)
    peer_choking,       \* PeerConnection.peer_choking
    bitfield,           \* PeerConnection.bitfield, as the set of pieces whose bit is set
    current_piece_idx,  \* {} is None, {i} is Some(i)
    blocks_received,
    blocks_total,
    outcome,            \* the error a session's latest step logged, or how it ended
    others,             \* session tasks beyond Sessions that hold a permit
    at,                 \* at[s]: the line of run at which a session task stands
    held,               \* held[s]: the mutexes whose guard a session task holds
    peer,               \* the PeerConnection examined on its own: <<>> or <<connection>>
    response,           \* the reply connect read to its handshake
    stream,             \* bytes written to the TcpStream and not yet read
    written,            \* the messages send_message was called with, not yet read back
    msg,                \* what the latest read_message or connect returned
    emitted,            \* the PieceMap the latest entry Bitfield was built from
    seeding,            \* the torrent a session serves: <<>> or <<torrent>>
    upload_limiter,     \* TokenBucket.tokens of the upload limiter, in bytes
    uploaded_bytes,     \* Downloader.uploaded_bytes
    served,             \* what the Request handler did with the latest Request
    bucket,             \* the TokenBucket examined on its own: <<>> or <<bucket>>
    now,                \* Instant::now(), in clock ticks
    tally,              \* what the consume calls of the bucket took so far
    took,               \* the latest consume call: <<>> or <<[amount, ok]>>
    value,              \* the value given to encode: <<>> or <<value>>
    encoded,            \* the bytes encode returned
    decoded,            \* what decode returned on them: <<>> or <<result>>
    timer,              \* time since resolve armed its deadline, in ticks
    resolve_at,         \* where resolve is: loop, ok (returned Ok), timeout (returned Err)
    result,             \* the metadata resolve returned: <<>> or <<buffer>>
    found_peers,        \* the peers the DHT found since the last get_found_peers
    searched_peers,     \* searched_peers of resolve
    metadata_rx,        \* the mpsc channel of resolve, capacity 1
    fetch,              \* fetch[p]: the attempt_metadata_fetch task for peer p
    sent_ext,           \* the payload of the latest extension handshake a fetch sent
    peer_id,            \* Downloader.peer_id; <<>> until from_torrent has drawn it
    handshakes,         \* the handshakes connect has written, oldest first
    entry_at,           \* where a connected session is in its entry code
    entry_status,       \* the PieceMap behind piece_status while the session enters
    seen,               \* the PieceMap as the session saw it under the lock (manager.rs:156)
    sends,              \* the calls of send_message of the session and how each ended
    torrent,            \* the torrent of the session followed block by block: <<>> or <<t>>
    piece_map,          \* its PieceMap, piece i at position i + 1
    task,               \* the locals of its task: position, current piece, buffer, block counters
    requested,          \* the Requests sent for the piece claimed last
    d_total,            \* downloaded_total as this task leaves it
    stored,             \* the write_all calls on the file: offset and length
    hashed,             \* the buffer as it was when the task hashed it last: <<>> or <<h>>
    ext_rx,             \* the last Extended message a fetch read while it waits for pieces
    up_bucket,          \* the TokenBucket of run (manager.rs:108), its Instants relative to last_refill
    up_clock,           \* the ticks since up_bucket.last_refill
    serving             \* serving[s]: where a session stands in serving a Request, and its sleep

shared == <<piece_status, file, downloaded_bytes>>
manager == <<mgr, request_left, handles, addr>>
channel == <<completion_rx, rx>>
locals == <<peer_choking, bitfield, current_piece_idx,
            blocks_received, blocks_total>>
\* The state of the parts of the program that are examined on their own.
pool == <<others>>
walk == <<at, held>>
conn == <<peer, response, stream, written, msg, emitted>>
upload == <<seeding, upload_limiter, uploaded_bytes, served>>
limiter == <<bucket, now, tally, took, up_bucket, up_clock, serving>>
codec == <<value, encoded, decoded>>
magnet == <<timer, resolve_at, result, found_peers, searched_peers, metadata_rx,
            fetch, sent_ext, ext_rx>>
ident == <<peer_id, handshakes>>
entry == <<entry_at, entry_status, seen, sends>>
blocks == <<torrent, piece_map, task, requested, d_total, stored, hashed>>
standalone == <<others, at, held, peer, response, stream, written, msg, emitted, seeding, upload_limiter, uploaded_bytes, served, bucket, now, tally, took, value, encoded, decoded, timer, resolve_at, result, found_peers, searched_peers, metadata_rx, fetch, sent_ext, peer_id, handshakes, entry_at, entry_status, seen, sends, torrent, piece_map, task, requested, d_total, stored, hashed, ext_rx, up_bucket, up_clock, serving>>
\* The download engine's state apart from the semaphore.
engine == <<piece_status, file, downloaded_bytes, mgr, request_left,
            peer_rx, connected_peers, handles, completion_rx, rx,
            pc, addr, peer_choking, bitfield, current_piece_idx,
            blocks_received, blocks_total, outcome>>
vars == <<piece_status, file, downloaded_bytes, mgr, request_left,
          peer_rx, connected_peers, handles, completion_rx, rx, permits,
          pc, addr, peer_choking, bitfield, current_piece_idx,
          blocks_received, blocks_total, outcome, others, at, held, peer,
          response, stream, written, msg, emitted, seeding,
          upload_limiter, uploaded_bytes, served, bucket, now, tally,
          took, value, encoded, decoded, timer, resolve_at, result,
          found_peers, searched_peers, metadata_rx, fetch, sent_ext,
          peer_id, handshakes, entry_at, entry_status, seen, sends,
          torrent, piece_map, task, requested, d_total, stored, hashed,
          ext_rx, up_bucket, up_clock, serving>>

Running == {"permit", "connecting", "loop"}

\* state.rs:30-37, manager.rs:108, 112: the shared structures behind a Mutex.
Mutexes ==
    {"piece_status", "file", "downloaded_bytes", "uploaded_bytes",
     "upload_limiter", "connected_peers", "downloader"}

HaveSet(status) == {i \in Pieces : status[i] = "Have"}
AllHave(status) == \A i \in Pieces : status[i] = "Have"

TypeOK ==
    /\ piece_status \in [Pieces -> {"Missing", "InProgress", "Have"}]
    /\ file \in [Pieces -> Contents]
    /\ downloaded_bytes \in Nat
    /\ mgr \in {"init", "running", "completed", "interrupted", "panicked"}
    /\ request_left \in Int
    /\ peer_rx \in Seq(Peers) /\ Len(peer_rx) <= MaxQueue
    /\ connected_peers \subseteq Peers
    /\ handles \in 0 .. MaxSessions
    /\ completion_rx \in BOOLEAN
    /\ rx \in [Sessions -> BOOLEAN]
    /\ permits \in 0 .. SemaphorePermits
    /\ pc \in [Sessions -> {"unspawned", "closed", "handshake"} \cup Running]
    /\ addr \in [Sessions -> Peers \cup {0}]
    /\ peer_choking \in [Sessions -> BOOLEAN]
    /\ bitfield \in [Sessions -> SUBSET Pieces]
    /\ current_piece_idx \in [Sessions -> {{}} \cup {{i} : i \in Pieces}]
    /\ blocks_received \in [Sessions -> Nat]
    /\ blocks_total \in [Sessions -> Nat]
    /\ outcome \in [Sessions -> STRING]
    /\ others \in Nat
    /\ at \in [Tasks -> STRING]
    /\ held \in [Tasks -> SUBSET Mutexes]
    /\ peer = <<>> \/ (Len(peer) = 1 /\ peer[1] \in Connections)
    /\ response \in Seq(Bytes)
    /\ stream \in Seq(Bytes)
    /\ written \in Seq(Messages \cup EntryBitfields) /\ Len(written) <= MaxFrames
    /\ msg = <<>> \/ (Len(msg) = 1 /\ msg[1] \in Messages \cup EntryBitfields \cup {Err})
    /\ emitted = <<>> \/ (Len(emitted) = 1 /\ emitted[1] \in StatusVectors)
    /\ seeding = <<>> \/ (Len(seeding) = 1 /\ seeding[1] \in Torrents)
    /\ upload_limiter \in 0 .. capacity
    /\ uploaded_bytes \in Nat
    /\ served = <<>> \/ (Len(served) = 1 /\ served[1] \in Handled)
    /\ bucket = <<>> \/ (Len(bucket) = 1 /\ bucket[1] \in TokenBuckets)
    /\ now \in 0 .. MaxTime
    /\ tally \in Tallies
    /\ took = <<>> \/ (Len(took) = 1 /\ took[1] \in [amount : Amounts, ok : BOOLEAN])
    /\ value = <<>> \/ (Len(value) = 1 /\ value[1] \in Values)
    /\ encoded \in Seq(Bytes)
    /\ Len(decoded) <= 1
    /\ timer \in 0 .. Deadline
    /\ resolve_at \in {"loop", "ok", "timeout"}
    /\ Len(result) <= 1
    /\ found_peers \subseteq MetaPeers
    /\ searched_peers \subseteq MetaPeers
    /\ Len(metadata_rx) <= 1
    /\ fetch \in [MetaPeers -> Fetches]
    /\ sent_ext \in Seq(Bytes)
    /\ Len(peer_id) \in {0, 20} /\ \A i \in 1 .. Len(peer_id) : peer_id[i] \in Bytes
    /\ \A k \in 1 .. Len(handshakes) :
          handshakes[k].by \in {"session", "fetch"} /\ Len(handshakes[k].bytes) = 68
    /\ entry_at \in {"connected", "interested", "extended", "loop", "returned"}
    /\ entry_status \in [1 .. NumStatus -> {"Missing", "Have"}]
    /\ seen = <<>> \/ seen \in [{1} -> [1 .. NumStatus -> {"Missing", "Have"}]]
    /\ \A k \in 1 .. Len(sends) :
          /\ sends[k].ok \in BOOLEAN
          /\ sends[k].msg.kind \in {"Bitfield", "Interested", "Extended", "Request",
                                    "Piece"}
    /\ Len(torrent) <= 1
    /\ \A k \in 1 .. Len(piece_map) :
          piece_map[k] \in {"Missing", "InProgress", "Have"}
    /\ task.at \in {"read", "select", "closed"}
    /\ Len(task.current_piece_idx) <= 1 /\ Len(task.got) <= 1
    /\ task.blocks_received \in Nat /\ task.blocks_total \in Nat
    /\ task.data_len \in Nat
    /\ \A k \in 1 .. Len(requested) : requested[k].kind = "Request"
    /\ d_total \in Nat
    /\ \A k \in 1 .. Len(stored) : stored[k].offset \in Nat /\ stored[k].len \in Nat
    /\ Len(hashed) <= 1
    /\ ext_rx = <<>> \/ (Len(ext_rx) = 1 /\ ext_rx[1].id \in Nat /\ ext_rx[1].taken \in BOOLEAN)
    /\ up_bucket \in [capacity : {capacity}, tokens : 0 .. capacity, refill_rate : {PerTick}, last_refill : {0}]
    /\ up_clock \in 0 .. FullTicks
    /\ serving \in [Sessions -> [at : {"L197", "L231", "L234", "L239"}, length : {0} \cup ServeLengths, left : 0 .. SleepTicks]]

(* init.rs:29-93 from_torrent: every piece Missing, counters 0; the file   *)
(* exists with length total_length and holds whatever was on disk.         *)
Init ==
    /\ piece_status = [i \in Pieces |-> "Missing"]
    /\ file \in [Pieces -> Contents]
    /\ downloaded_bytes = 0
    /\ mgr = "init"
    /\ request_left = total_length
    /\ peer_rx = <<>>
    /\ connected_peers = {}
    /\ handles = 0
    /\ completion_rx = FALSE
    /\ rx = [s \in Sessions |-> FALSE]
    /\ permits = SemaphorePermits
    /\ pc = [s \in Sessions |-> "unspawned"]
    /\ addr = [s \in Sessions |-> 0]
    /\ peer_choking = [s \in Sessions |-> TRUE]
    /\ bitfield = [s \in Sessions |-> {}]
    /\ current_piece_idx = [s \in Sessions |-> {}]
    /\ blocks_received = [s \in Sessions |-> 0]
    /\ blocks_total = [s \in Sessions |-> 0]
    /\ outcome = [s \in Sessions |-> "none"]
    /\ others = 0
    /\ at = [t \in Tasks |-> IF t = ScanTask THEN "S111"
                             ELSE IF t = StatusTask THEN "G107" ELSE "L140"]
    /\ held = [t \in Tasks |-> {}]
    /\ peer = <<NewConnection(RemoteIds[1])>>
    /\ response = <<>>
    /\ stream = <<>>
    /\ written = <<>>
    /\ msg = <<>>
    /\ emitted = <<>>
    /\ seeding = <<>>
    /\ upload_limiter = capacity
    /\ uploaded_bytes = 0
    /\ served = <<>>
    /\ bucket = <<>>
    /\ now = 0
    /\ tally = [consumed |-> 0, created |-> 0, emptied |-> <<>>]
    /\ took = <<>>
    /\ value = <<>>
    /\ encoded = <<>>
    /\ decoded = <<>>
    /\ timer = 0
    /\ resolve_at = "loop"
    /\ result = <<>>
    /\ found_peers = {}
    /\ searched_peers = {}
    /\ metadata_rx = <<>>
    /\ fetch = [p \in MetaPeers |-> Idle]
    /\ sent_ext = <<>>
    /\ peer_id = <<>>
    /\ handshakes = <<>>
    /\ entry_at = "connected"
    /\ entry_status = [i \in 1 .. NumStatus |-> "Missing"]
    /\ seen = <<>>
    /\ sends = <<>>
    /\ torrent = <<>>
    /\ piece_map = <<>>
    /\ task = [at |-> "read", got |-> <<>>, current_piece_idx |-> <<>>,
               data_len |-> 0, data |-> <<>>, blocks_received |-> 0,
               blocks_total |-> 0]
    /\ requested = <<>>
    /\ d_total = 0
    /\ stored = <<>>
    /\ hashed = <<>>
    /\ ext_rx = <<>>
    /\ up_bucket = [capacity |-> capacity, tokens |-> capacity, refill_rate |-> PerTick, last_refill |-> 0]
    /\ up_clock = 0
    /\ serving = [s \in Sessions |-> [at |-> "L197", length |-> 0, left |-> 0]]

(* ---------------------------- resume scan ----------------------------- *)

(* init.rs:106-153 check_existing_data.  `readable` are the pieces whose   *)
(* seek and read_exact succeed; each of them whose digest matches is       *)
(* marked Have and its length is added to downloaded_bytes.                *)
ScanMatches(i, readable) == i \in readable /\ Sha1(i, file[i]) = pieces[i]

check_existing_data ==
    /\ mgr = "init"
    /\ \E readable \in SUBSET Pieces :
         LET found == {i \in Pieces : ScanMatches(i, readable)}
         IN  /\ piece_status' = [i \in Pieces |->
                                   IF i \in found THEN "Have" ELSE piece_status[i]]
             /\ downloaded_bytes + SumLen(found) <= MaxScans * total_length
             /\ downloaded_bytes' = downloaded_bytes + SumLen(found)
    /\ UNCHANGED <<standalone, file, mgr, request_left, peer_rx, connected_peers, handles,
                   channel, permits, pc, addr, locals, outcome>>

(* ------------------------------ manager ------------------------------- *)

(* manager.rs:16-112: run builds the tracker request, whose `left` is      *)
(* total_length - downloaded_bytes on u64, and enters the loop.  With      *)
(* downloaded_bytes > total_length the subtraction overflows: a build with *)
(* overflow checks panics, one without wraps (request_left then holds the  *)
(* signed residue of the wrapped value).                                   *)
StartRun ==
    /\ mgr = "init"
    /\ \/ /\ downloaded_bytes <= total_length
          /\ mgr' = "running"
          /\ request_left' = total_length - downloaded_bytes
       \/ /\ downloaded_bytes > total_length
          /\ \E checked \in BOOLEAN :
               IF checked
               THEN mgr' = "panicked" /\ UNCHANGED request_left
               ELSE mgr' = "running" /\ request_left' = total_length - downloaded_bytes
    /\ UNCHANGED <<standalone, shared, peer_rx, connected_peers, handles, channel,
                   permits, pc, addr, locals, outcome>>

(* manager.rs:47-103: the tracker and DHT tasks send endpoints, possibly   *)
(* with duplicates, into the channel the manager receives from.            *)
Discover(p) ==
    /\ mgr = "running"
    /\ Len(peer_rx) < MaxQueue
    /\ peer_rx' = Append(peer_rx, p)
    /\ UNCHANGED <<standalone, shared, mgr, request_left, connected_peers, handles,
                   channel, permits, pc, addr, locals, outcome>>

\* A manager that spawns a session for every candidate it receives.
MgrRecvPeerNoDedup ==
    /\ mgr = "running"
    /\ peer_rx # <<>>
    /\ handles < MaxSessions
    /\ connected_peers' = connected_peers \cup {Head(peer_rx)}
    /\ handles' = handles + 1
    /\ pc' = [pc EXCEPT ![handles + 1] = "permit"]
    /\ addr' = [addr EXCEPT ![handles + 1] = Head(peer_rx)]
    /\ rx' = [rx EXCEPT ![handles + 1] = FALSE]
    /\ peer_rx' = Tail(peer_rx)
    /\ UNCHANGED <<standalone, shared, mgr, request_left, completion_rx,
                   permits, locals, outcome>>

(* manager.rs:116-140: a candidate already in the connected-set is         *)
(* dropped; otherwise it is inserted, a receiver is subscribed and the     *)
(* session task is spawned.                                                *)
MgrRecvPeer ==
    /\ mgr = "running"
    /\ peer_rx # <<>>
    /\ LET peer_addr == Head(peer_rx)
       IN  \/ /\ peer_addr \in connected_peers
              /\ UNCHANGED <<connected_peers, handles, pc, addr, rx>>
           \/ /\ peer_addr \notin connected_peers
              /\ handles < MaxSessions
              /\ connected_peers' = connected_peers \cup {peer_addr}
              /\ handles' = handles + 1
              /\ pc' = [pc EXCEPT ![handles + 1] = "permit"]
              /\ addr' = [addr EXCEPT ![handles + 1] = peer_addr]
              /\ rx' = [rx EXCEPT ![handles + 1] = FALSE]
    /\ peer_rx' = Tail(peer_rx)
    /\ UNCHANGED <<standalone, shared, mgr, request_left, completion_rx, permits,
                   locals, outcome>>

(* manager.rs:439-442 *)
MgrCompletion ==
    /\ mgr = "running"
    /\ completion_rx
    /\ mgr' = "completed"
    /\ UNCHANGED <<standalone, shared, request_left, peer_rx, connected_peers, handles,
                   channel, permits, pc, addr, locals, outcome>>

(* manager.rs:443-446: the interrupt only leaves the loop.                 *)
MgrCtrlC ==
    /\ mgr = "running"
    /\ mgr' = "interrupted"
    /\ UNCHANGED <<standalone, shared, request_left, peer_rx, connected_peers, handles,
                   channel, permits, pc, addr, locals, outcome>>

(* -------------------------- session: start ---------------------------- *)

\* The locals of a task that has ended are gone.
DropLocals(s) ==
    /\ peer_choking' = [peer_choking EXCEPT ![s] = TRUE]
    /\ bitfield' = [bitfield EXCEPT ![s] = {}]
    /\ current_piece_idx' = [current_piece_idx EXCEPT ![s] = {}]
    /\ blocks_received' = [blocks_received EXCEPT ![s] = 0]
    /\ blocks_total' = [blocks_total EXCEPT ![s] = 0]

\* The task returns: its permit and its receiver are dropped.
EndTask(s, how) ==
    /\ pc' = [pc EXCEPT ![s] = "closed"]
    /\ outcome' = [outcome EXCEPT ![s] = how]
    /\ permits' = permits + 1
    /\ DropLocals(s)

\* A task that goes on to connect whether or not a permit is free.
AcquireWithoutWaiting(s) ==
    /\ pc[s] = "permit"
    /\ permits' = permits - 1
    /\ pc' = [pc EXCEPT ![s] = "connecting"]
    /\ UNCHANGED <<standalone, shared, manager, peer_rx, connected_peers,
                   channel, locals, outcome>>

(* manager.rs:141 *)
AcquirePermit(s) ==
    /\ pc[s] = "permit"
    /\ permits > 0
    /\ permits' = permits - 1
    /\ pc' = [pc EXCEPT ![s] = "connecting"]
    /\ UNCHANGED <<standalone, shared, manager, peer_rx, connected_peers, channel, locals,
                   outcome>>

(* manager.rs:144-152, peer/mod.rs:147-191: connect or the handshake       *)
(* fails; the endpoint is removed from the connected-set.                  *)
ConnectFail(s) ==
    /\ pc[s] = "connecting"
    /\ connected_peers' = connected_peers \ {addr[s]}
    /\ EndTask(s, "connect_err")
    /\ rx' = [rx EXCEPT ![s] = FALSE]
    /\ UNCHANGED <<standalone, shared, manager, peer_rx, completion_rx>>

(* manager.rs:144-193: the connection is made (peer_choking = true, empty  *)
(* bitfield) and the entry messages are sent: Bitfield if any piece is     *)
(* Have, Interested, the extension handshake (a failure of which is only   *)
(* logged).  Connecting touches no shared state, so it is one step with    *)
(* the entry messages.                                                     *)
ConnectOk(s) ==
    /\ pc[s] = "connecting"
    /\ pc' = [pc EXCEPT ![s] = "loop"]
    /\ peer_choking' = [peer_choking EXCEPT ![s] = TRUE]
    /\ bitfield' = [bitfield EXCEPT ![s] = {}]
    /\ current_piece_idx' = [current_piece_idx EXCEPT ![s] = {}]
    /\ blocks_received' = [blocks_received EXCEPT ![s] = 0]
    /\ blocks_total' = [blocks_total EXCEPT ![s] = 0]
    /\ UNCHANGED <<standalone, shared, manager, peer_rx, connected_peers, channel, permits,
                   outcome>>

(* manager.rs:166-169: the Bitfield cannot be sent: `return`.              *)
EntryBitfieldErr(s) ==
    /\ pc[s] = "connecting"
    /\ \E i \in Pieces : piece_status[i] = "Have"
    /\ EndTask(s, "entry_send_err")
    /\ rx' = [rx EXCEPT ![s] = FALSE]
    /\ UNCHANGED <<standalone, shared, manager, peer_rx, connected_peers, completion_rx>>

(* manager.rs:173-176: Interested cannot be sent: `return`.                *)
EntryInterestedErr(s) ==
    /\ pc[s] = "connecting"
    /\ EndTask(s, "entry_send_err")
    /\ rx' = [rx EXCEPT ![s] = FALSE]
    /\ UNCHANGED <<standalone, shared, manager, peer_rx, connected_peers, completion_rx>>

(* --------------------------- session: loop ---------------------------- *)

\* A manager that stores the buffer without comparing its digest.
HashMatchesAlways(i, content) == TRUE

\* Sha1 of the assembled buffer against torrent.pieces[curr] (manager.rs:283-287).
HashMatches(i, content) == Sha1(i, content) = pieces[i]

\* A selection step that offers every piece that is not yet Have.
AvailableNotHave(status, bf) == {i \in Pieces : status[i] # "Have" /\ i \in bf}

\* A selection step that offers every piece nobody is downloading.
AvailableNotInProgress(status, bf) ==
    {i \in Pieces : status[i] # "InProgress" /\ i \in bf}

\* A selection step that offers every Missing piece, whatever the peer has.
AvailableIgnoringBitfield(status, bf) == {i \in Pieces : status[i] = "Missing"}

\* manager.rs:377-384: the Missing pieces the peer has (has_piece, peer/mod.rs:120-128).
AvailablePieces(status, bf) == {i \in Pieces : status[i] = "Missing" /\ i \in bf}

\* The iteration ends and the session reads again.
Stay(s, chk, bf, cur, br, bt, status, dl, fl, how) ==
    /\ piece_status' = status
    /\ downloaded_bytes' = dl
    /\ file' = fl
    /\ peer_choking' = [peer_choking EXCEPT ![s] = chk]
    /\ bitfield' = [bitfield EXCEPT ![s] = bf]
    /\ current_piece_idx' = [current_piece_idx EXCEPT ![s] = cur]
    /\ blocks_received' = [blocks_received EXCEPT ![s] = br]
    /\ blocks_total' = [blocks_total EXCEPT ![s] = bt]
    /\ outcome' = [outcome EXCEPT ![s] = how]
    /\ UNCHANGED <<standalone, manager, peer_rx, connected_peers, channel, permits, pc>>

(* `break`: the loop is left, manager.rs:435 removes the endpoint from the *)
(* connected-set and the task ends.  With `sent`, tx.send(()) has put a    *)
(* value into every receiver subscribed at that moment.                    *)
Break(s, status, dl, fl, how, sent) ==
    /\ piece_status' = status
    /\ downloaded_bytes' = dl
    /\ file' = fl
    /\ connected_peers' = connected_peers \ {addr[s]}
    /\ EndTask(s, how)
    /\ completion_rx' = (completion_rx \/ (sent /\ mgr = "running"))
    /\ rx' = [t \in Sessions |->
                IF t = s THEN FALSE ELSE rx[t] \/ (sent /\ pc[t] \in Running)]
    /\ UNCHANGED <<standalone, manager, peer_rx>>

(* manager.rs:367-433: the piece-selection step that closes an iteration,  *)
(* on the values the handler left.  A failed Request send gives the piece  *)
(* back and leaves the `for`, not the session loop.                        *)
Selection(s, chk, bf, cur, br, bt, status, dl, fl) ==
    IF ~chk /\ cur = {}
    THEN IF AllHave(status)
         THEN Break(s, status, dl, fl, "complete", TRUE)
         ELSE LET available_pieces == AvailablePieces(status, bf)
              IN  IF available_pieces = {}
                  THEN Stay(s, chk, bf, cur, br, bt, status, dl, fl, "none")
                  ELSE \E i \in available_pieces : \E requests_sent \in BOOLEAN :
                         IF requests_sent
                         THEN Stay(s, chk, bf, {i}, 0, BlocksTotal(PieceLen(i)),
                                   [status EXCEPT ![i] = "InProgress"], dl, fl, "none")
                         ELSE Stay(s, chk, bf, {}, 0, BlocksTotal(PieceLen(i)),
                                   [status EXCEPT ![i] = "Missing"], dl, fl,
                                   "request_send_err")
    ELSE Stay(s, chk, bf, cur, br, bt, status, dl, fl, "none")

\* The handler changed nothing but the connection's own state.
AfterRead(s, chk, bf) ==
    Selection(s, chk, bf, current_piece_idx[s], blocks_received[s],
              blocks_total[s], piece_status, downloaded_bytes, file)

(* manager.rs:197-210: read error, read timeout, unknown message id.       *)
ReadError(s) ==
    /\ pc[s] = "loop"
    /\ Break(s,
             [i \in Pieces |->
                IF i \in current_piece_idx[s] /\ piece_status[i] = "InProgress"
                THEN "Missing" ELSE piece_status[i]],
             downloaded_bytes, file, "read_err", FALSE)

(* manager.rs:212-214 *)
RecvStop(s) ==
    /\ pc[s] = "loop"
    /\ rx[s]
    /\ Break(s, piece_status, downloaded_bytes, file, "stop", FALSE)

(* peer/mod.rs:284-291 *)
RecvChoke(s) ==
    /\ pc[s] = "loop"
    /\ AfterRead(s, TRUE, bitfield[s])

RecvUnchoke(s) ==
    /\ pc[s] = "loop"
    /\ AfterRead(s, FALSE, bitfield[s])

(* peer/mod.rs:300-309 *)
RecvHave(s, i) ==
    /\ pc[s] = "loop"
    /\ AfterRead(s, peer_choking[s], bitfield[s] \cup {i})

(* peer/mod.rs:310-315 *)
RecvBitfield(s, bits) ==
    /\ pc[s] = "loop"
    /\ AfterRead(s, peer_choking[s], bits)

(* A message whose handler changes none of the state modelled here:        *)
(* KeepAlive, Interested, NotInterested, Cancel, Extended (its candidates  *)
(* reach the channel as Discover does), a Request for a piece that is not  *)
(* Have, a Request that is served (manager.rs:227-268, 335-364).           *)
RecvOther(s) ==
    /\ pc[s] = "loop"
    /\ AfterRead(s, peer_choking[s], bitfield[s])

(* manager.rs:221-225, 241-249: `continue` on a Request that is too large  *)
(* or whose block cannot be read; the piece-selection step is skipped.     *)
RecvRequestDropped(s) ==
    /\ pc[s] = "loop"
    /\ outcome' = [outcome EXCEPT ![s] = "none"]
    /\ UNCHANGED <<standalone, shared, manager, peer_rx, connected_peers, channel, permits, pc,
                   locals>>

(* manager.rs:252-255: the Piece answering a Request cannot be sent.       *)
RecvRequestSendErr(s) ==
    /\ pc[s] = "loop"
    /\ \E index \in Pieces : piece_status[index] = "Have"
    /\ Break(s, piece_status, downloaded_bytes, file, "piece_send_err", FALSE)

(* manager.rs:274-277 *)
PieceAccepted(s, index, begin, len) ==
    /\ current_piece_idx[s] = {index}
    /\ begin + len <= PieceLen(index)

(* manager.rs:269-334, a Piece that is not accepted or is not the last     *)
(* block of the buffer.                                                    *)
RecvPiece(s, index, begin) ==
    /\ pc[s] = "loop"
    /\ IF PieceAccepted(s, index, begin, block_size)
       THEN /\ blocks_received[s] + 1 # blocks_total[s]
            /\ Selection(s, peer_choking[s], bitfield[s], current_piece_idx[s],
                         blocks_received[s] + 1, blocks_total[s],
                         piece_status, downloaded_bytes, file)
       ELSE AfterRead(s, peer_choking[s], bitfield[s])

(* manager.rs:282-329, the Piece that completes the buffer.  `content` is  *)
(* what the buffer then holds, `storage` how seek and write_all end.  A    *)
(* write_all that fails has written part of a buffer of original bytes,    *)
(* which leaves a region that was not original not original.               *)
RecvLastPiece(s, index, begin, content, storage) ==
    /\ pc[s] = "loop"
    /\ PieceAccepted(s, index, begin, block_size)
    /\ blocks_received[s] + 1 = blocks_total[s]
    /\ IF ~HashMatches(index, content)
       THEN /\ storage = "ok"
            /\ Break(s, [piece_status EXCEPT ![index] = "Missing"],
                     downloaded_bytes, file, "hash_mismatch", FALSE)
       ELSE CASE storage = "seek_err" ->
                   Break(s, piece_status, downloaded_bytes, file,
                         "storage_err", FALSE)
              [] storage = "write_err" ->
                   Break(s, piece_status, downloaded_bytes, file,
                         "storage_err", FALSE)
              [] storage = "ok" ->
                   Selection(s, peer_choking[s], bitfield[s], {},
                             blocks_received[s] + 1, blocks_total[s],
                             [piece_status EXCEPT ![index] = "Have"],
                             downloaded_bytes + PieceLen(index),
                             [file EXCEPT ![index] = content])

Begins == {b * block_size : b \in 0 .. (BlocksPerPiece - 1)}

SessionStep(s) ==
    \/ AcquirePermit(s)
    \/ ConnectOk(s)
    \/ ConnectFail(s)
    \/ EntryBitfieldErr(s)
    \/ EntryInterestedErr(s)
    \/ ReadError(s)
    \/ RecvStop(s)
    \/ RecvChoke(s)
    \/ RecvUnchoke(s)
    \/ \E i \in Pieces : RecvHave(s, i)
    \/ \E bits \in SUBSET Pieces : RecvBitfield(s, bits)
    \/ RecvOther(s)
    \/ RecvRequestDropped(s)
    \/ RecvRequestSendErr(s)
    \/ \E index \in Pieces, begin \in Begins : RecvPiece(s, index, begin)
    \/ \E index \in Pieces, begin \in Begins, content \in Contents,
          storage \in {"ok", "seek_err", "write_err"} :
            RecvLastPiece(s, index, begin, content, storage)

Next ==
    \/ check_existing_data
    \/ StartRun
    \/ \E p \in Peers : Discover(p)
    \/ MgrRecvPeer
    \/ MgrCompletion
    \/ MgrCtrlC
    \/ \E s \in Sessions : SessionStep(s)

Spec == Init /\ [][Next]_vars

(* The scheduling the runtime gives: a select! whose branch stays ready     *)
(* takes it (the manager's completion branch, a session's stop branch),    *)
(* and a session task that can take a step takes one: the semaphore hands  *)
(* out a free permit, read_message ends by its timeout, and connect is     *)
(* taken to return (what it does when the peer sends no handshake is       *)
(* examined under FairConnectSpec).                                        *)
FairSpec ==
    /\ Spec
    /\ WF_vars(MgrCompletion)
    /\ \A s \in Sessions : WF_vars(SessionStep(s)) /\ WF_vars(RecvStop(s))

(* ------------------------- the semaphore alone ------------------------ *)

(* The session tasks of further candidates, counted: such a task takes a   *)
(* permit (manager.rs:141) and gives it back when it returns               *)
(* (manager.rs:150, 168, 175, 436).                                        *)
OtherAcquire ==
    /\ mgr = "running"
    /\ permits > 0
    /\ permits' = permits - 1
    /\ others' = others + 1
    /\ UNCHANGED <<engine, ident, entry, blocks, magnet, codec, limiter, walk, conn, upload>>

OtherRelease ==
    /\ others > 0
    /\ others' = others - 1
    /\ permits' = permits + 1
    /\ UNCHANGED <<engine, ident, entry, blocks, magnet, codec, limiter, walk, conn, upload>>

\* The manager and the start and the end of the session tasks.
PermitNext ==
    \/ StartRun
    \/ \E p \in Peers : Discover(p)
    \/ MgrRecvPeer
    \/ OtherAcquire
    \/ OtherRelease
    \/ \E s \in Sessions :
          \/ AcquirePermit(s)
          \/ ConnectOk(s)
          \/ ConnectFail(s)
          \/ EntryInterestedErr(s)
          \/ ReadError(s)

PermitSpec == Init /\ [][PermitNext]_vars

(* --------------------- connect, await by await ------------------------ *)

(* peer/mod.rs:152-165: TcpStream::connect returned a stream within its 5  *)
(* seconds and the 68 bytes of our handshake are written; the task is now  *)
(* at read_exact(&mut response) of line 168, with its permit.              *)
TcpConnected(s) ==
    /\ pc[s] = "connecting"
    /\ pc' = [pc EXCEPT ![s] = "handshake"]
    /\ UNCHANGED <<standalone, shared, manager, peer_rx, connected_peers, channel, permits,
                   locals, outcome>>

(* peer/mod.rs:168-190, manager.rs:153-193: the peer's 68 bytes arrive and *)
(* pass the checks; the entry messages are sent.                           *)
HandshakeReply(s) ==
    /\ pc[s] = "handshake"
    /\ pc' = [pc EXCEPT ![s] = "loop"]
    /\ peer_choking' = [peer_choking EXCEPT ![s] = TRUE]
    /\ bitfield' = [bitfield EXCEPT ![s] = {}]
    /\ current_piece_idx' = [current_piece_idx EXCEPT ![s] = {}]
    /\ blocks_received' = [blocks_received EXCEPT ![s] = 0]
    /\ blocks_total' = [blocks_total EXCEPT ![s] = 0]
    /\ UNCHANGED <<standalone, shared, manager, peer_rx, connected_peers, channel, permits,
                   outcome>>

(* peer/mod.rs:168-176, manager.rs:148-151: the peer closes the stream or  *)
(* its 68 bytes fail a check.                                              *)
HandshakeFail(s) ==
    /\ pc[s] = "handshake"
    /\ connected_peers' = connected_peers \ {addr[s]}
    /\ EndTask(s, "connect_err")
    /\ rx' = [rx EXCEPT ![s] = FALSE]
    /\ UNCHANGED <<standalone, shared, manager, peer_rx, completion_rx>>

ConnectNext ==
    \/ StartRun
    \/ \E p \in Peers : Discover(p)
    \/ MgrRecvPeer
    \/ \E s \in Sessions :
          \/ AcquirePermit(s)
          \/ TcpConnected(s)
          \/ ConnectFail(s)
          \/ HandshakeReply(s)
          \/ HandshakeFail(s)
          \/ ReadError(s)

(* What the program itself brings about: the semaphore hands out a free    *)
(* permit, and TcpStream::connect ends within its timeout of 5 seconds     *)
(* (peer/mod.rs:152-153).  When the peer's bytes arrive is the peer's      *)
(* choice, and read_exact at line 168 is under no timeout.                 *)
FairConnectSpec ==
    /\ Init /\ [][ConnectNext]_vars
    /\ \A s \in Sessions :
          /\ WF_vars(AcquirePermit(s))
          /\ WF_vars(TcpConnected(s) \/ ConnectFail(s))

(* -------------------- the mutexes of a session task ------------------- *)

(* The control flow of a session task (manager.rs:140-436) between its     *)
(* awaits, with the guards it takes and drops.  at[s] = "Ln" says that the *)
(* task is at the await of line n: a lock() that has not yet returned, or  *)
(* a call on the connection or the file that is under way.  An edge is     *)
(* <<from, to, acq, rel, tmp>>: leaving `from` for `to` the task acquires  *)
(* and keeps the guards acq, drops the guards rel, and takes and drops at  *)
(* once the guards tmp.  Which edge is taken depends on data (the message  *)
(* read, the PieceMap), which is left open here.                           *)
Flow ==
    { <<"L140", "L141", {}, {}, {}>>,
      <<"L141", "L145", {}, {}, {}>>,
      <<"L145", "L149", {}, {}, {}>>,
      <<"L149", "end", {}, {}, {"connected_peers"}>>,
      <<"L145", "L156", {}, {}, {}>>,
      \* 155-171: the guard lives to the end of the block, across the send
      <<"L156", "L166", {"piece_status"}, {}, {}>>,
      <<"L156", "L173", {}, {}, {"piece_status"}>>,
      <<"L166", "L173", {}, {"piece_status"}, {}>>,
      <<"L166", "end", {}, {"piece_status"}, {}>>,
      <<"L173", "L184", {}, {}, {}>>,
      <<"L173", "end", {}, {}, {}>>,
      <<"L184", "L197", {}, {}, {}>>,
      \* 196-215: select
      <<"L197", "L203", {}, {}, {}>>,
      <<"L197", "L435", {}, {}, {}>>,
      <<"L197", "L222", {}, {}, {}>>,
      <<"L197", "L274", {}, {}, {}>>,
      <<"L197", "L367", {}, {}, {}>>,
      <<"L203", "L435", {}, {}, {"piece_status"}>>,
      \* 221-265: Request
      <<"L222", "L197", {}, {}, {}>>,
      <<"L222", "L227", {}, {}, {}>>,
      <<"L227", "L367", {}, {}, {"piece_status"}>>,
      <<"L227", "L231", {}, {}, {"piece_status"}>>,
      <<"L231", "L234", {}, {}, {"upload_limiter"}>>,
      <<"L234", "L231", {}, {}, {}>>,
      <<"L231", "L239", {}, {}, {"upload_limiter"}>>,
      <<"L239", "L241", {"file"}, {}, {}>>,
      <<"L241", "L197", {}, {"file"}, {}>>,
      <<"L241", "L246", {}, {}, {}>>,
      <<"L246", "L197", {}, {"file"}, {}>>,
      <<"L246", "L252", {}, {"file"}, {}>>,
      <<"L252", "L435", {}, {}, {}>>,
      <<"L252", "L257", {}, {}, {}>>,
      <<"L257", "L367", {}, {}, {"uploaded_bytes"}>>,
      \* 269-334: Piece; the guards f, status and d_total live to line 320
      <<"L274", "L367", {}, {}, {}>>,
      <<"L274", "L289", {}, {}, {}>>,
      <<"L274", "L325", {}, {}, {}>>,
      <<"L289", "L291", {"file"}, {}, {}>>,
      <<"L291", "L435", {}, {"file"}, {}>>,
      <<"L291", "L295", {}, {}, {}>>,
      <<"L295", "L435", {}, {"file"}, {}>>,
      <<"L295", "L300", {}, {}, {}>>,
      <<"L300", "L303", {"piece_status"}, {}, {}>>,
      <<"L303", "L313", {"downloaded_bytes"}, {}, {}>>,
      <<"L313", "L367", {}, {"file", "piece_status", "downloaded_bytes"}, {}>>,
      <<"L325", "L435", {}, {}, {"piece_status"}>>,
      \* 367-433: piece selection and the Requests
      <<"L367", "L197", {}, {}, {}>>,
      <<"L367", "L370", {}, {}, {}>>,
      <<"L370", "L435", {}, {}, {"piece_status"}>>,
      <<"L370", "L197", {}, {}, {"piece_status"}>>,
      <<"L370", "L417", {}, {}, {"piece_status"}>>,
      <<"L417", "L417", {}, {}, {}>>,
      <<"L417", "L197", {}, {}, {}>>,
      <<"L417", "L426", {}, {}, {}>>,
      <<"L426", "L197", {}, {}, {"piece_status"}>>,
      <<"L435", "end", {}, {}, {"connected_peers"}>> }

\* The awaits that read from or write to the peer's TcpStream.
NetworkIO == {"L145", "L166", "L173", "L184", "L197", "L252", "L313", "L417"}

\* check_existing_data (init.rs:106-145) and, at G87, start_download's
\* store of the downloader (main.rs:86-89): the guards of the file and of
\* the PieceMap live from lines 111 and 113 to the end of the scan.
ScanFlow ==
    { <<"S111", "S112", {"file"}, {}, {}>>,
      <<"S112", "failed", {}, {"file"}, {}>>,
      <<"S112", "S113", {}, {}, {}>>,
      <<"S113", "S129", {"piece_status"}, {}, {}>>,
      <<"S113", "G87", {}, {"file"}, {"piece_status"}>>,
      <<"S129", "S133", {}, {}, {}>>,
      <<"S129", "G87", {}, {"file", "piece_status"}, {}>>,
      <<"S133", "S129", {}, {}, {}>>,
      <<"S133", "S139", {}, {}, {}>>,
      <<"S133", "G87", {}, {"file", "piece_status"}, {}>>,
      <<"S139", "S129", {}, {}, {"downloaded_bytes"}>>,
      <<"S139", "G87", {}, {"file", "piece_status"}, {"downloaded_bytes"}>>,
      <<"G87", "end", {}, {}, {"downloader"}>> }

\* A get_status that keeps the guard of downloaded_bytes while it reads the
\* PieceMap.
StatusFlowKeepingCounter ==
    { <<"G107", "G110", {"downloader"}, {}, {}>>,
      <<"G110", "G111", {"downloaded_bytes"}, {}, {}>>,
      <<"G111", "G107", {}, {"downloader", "downloaded_bytes"}, {"piece_status"}>>,
      <<"G107", "G121", {"downloader"}, {}, {}>>,
      <<"G121", "G107", {}, {"downloader"}, {}>> }

\* get_status (main.rs:106-134), called again and again: G121 is the
\* branch taken while no downloader is stored.
StatusFlow ==
    { <<"G107", "G110", {"downloader"}, {}, {}>>,
      <<"G110", "G111", {}, {}, {"downloaded_bytes"}>>,
      <<"G111", "G107", {}, {"downloader"}, {"uploaded_bytes"}>>,
      <<"G107", "G121", {"downloader"}, {}, {}>>,
      <<"G121", "G107", {}, {"downloader"}, {}>> }

TaskFlow(t) ==
    IF t \in Sessions THEN Flow
    ELSE IF t = ScanTask THEN ScanFlow ELSE StatusFlow

\* start_download stores the downloader and spawns run only after the
\* scan has returned Ok (main.rs:79-93).
Started == at[ScanTask] = "end"

Ready(t, e) ==
    /\ t \in Sessions => Started
    /\ (t = StatusTask /\ e[1] = "G107") => (e[2] = "G110" <=> Started)

\* The awaits, other than lock(), on the shared file.
FileIO == {"L241", "L246", "L291", "L295", "S112", "S129", "S133"}

\* A lock() that returns although another task holds the guard.
HeldByNoOne(s) == {}

\* The mutexes some other task holds: lock() waits for them.
HeldByOthers(s) == UNION {held[t] : t \in Tasks \ {s}}

\* The edges a task can take now.
CanTake(t) ==
    {e \in TaskFlow(t) : /\ at[t] = e[1]
                         /\ Ready(t, e)
                         /\ (e[3] \cup e[5]) \cap HeldByOthers(t) = {}}

LockStep(s) ==
    /\ \E e \in TaskFlow(s) :
          /\ at[s] = e[1]
          /\ Ready(s, e)
          /\ (e[3] \cup e[5]) \cap HeldByOthers(s) = {}
          /\ at' = [at EXCEPT ![s] = e[2]]
          /\ held' = [held EXCEPT ![s] = (held[s] \cup e[3]) \ e[4]]
    /\ UNCHANGED <<engine, ident, entry, blocks, magnet, codec, limiter, permits, pool, conn, upload>>

LockNext == \E s \in Tasks : LockStep(s)

LockSpec == Init /\ [][LockNext]_vars

(* ----------------------- the connection alone ------------------------- *)

(* peer/mod.rs:198-266 send_message: the bytes written for a message.  A   *)
(* variant without an arm of its own (Cancel) falls to `_ => {}`.          *)
Frame(m) ==
    CASE m.kind = "KeepAlive" -> write_u32(0)
      [] m.kind = "Choke" -> write_u32(1) \o <<0>>
      [] m.kind = "Unchoke" -> write_u32(1) \o <<1>>
      [] m.kind = "Interested" -> write_u32(1) \o <<2>>
      [] m.kind = "NotInterested" -> write_u32(1) \o <<3>>
      [] m.kind = "Have" -> write_u32(5) \o <<4>> \o write_u32(m.index)
      [] m.kind = "Request" ->
           write_u32(13) \o <<6>> \o write_u32(m.index) \o write_u32(m.begin)
               \o write_u32(m.length)
      [] m.kind = "Piece" ->
           write_u32(9 + Len(m.data)) \o <<7>> \o write_u32(m.index)
               \o write_u32(m.begin) \o m.data
      [] m.kind = "Bitfield" -> write_u32(1 + Len(m.data)) \o <<5>> \o m.data
      [] m.kind = "Extended" ->
           write_u32(2 + Len(m.data)) \o <<20>> \o <<m.id>> \o m.data
      [] OTHER -> <<>>

RECURSIVE Frames(_)
Frames(ms) == IF ms = <<>> THEN <<>> ELSE Frame(Head(ms)) \o Frames(Tail(ms))

\* peer/mod.rs:120-128
\* A has_piece that counts the bits of a byte from the least significant.
HasPieceLsbFirst(bf, index) ==
    LET byte_index == index \div 8
    IN  IF byte_index < Len(bf)
        THEN (bf[byte_index + 1] \div Pow2(index % 8)) % 2 = 1
        ELSE FALSE

has_piece(bf, index) ==
    LET byte_index == index \div 8
        bit_index == 7 - (index % 8)
    IN  IF byte_index < Len(bf)
        THEN (bf[byte_index + 1] \div Pow2(bit_index)) % 2 = 1
        ELSE FALSE

\* A Have that stores the new bit over the byte instead of or-ing it in.
SetHaveOverwriting(bf, index) ==
    LET byte_index == index \div 8
        resized == IF byte_index >= Len(bf)
                   THEN bf \o [j \in 1 .. (byte_index + 1 - Len(bf)) |-> 0]
                   ELSE bf
    IN  [resized EXCEPT ![byte_index + 1] = Pow2(7 - (index % 8))]

\* peer/mod.rs:302-307: the bitfield after Have(index).
SetHave(bf, index) ==
    LET byte_index == index \div 8
        bit_index == 7 - (index % 8)
        resized == IF byte_index >= Len(bf)
                   THEN bf \o [j \in 1 .. (byte_index + 1 - Len(bf)) |-> 0]
                   ELSE bf
    IN  [resized EXCEPT ![byte_index + 1] = SetBit(@, bit_index)]

Returned(m, rest, c) == [msg |-> m, rest |-> rest, conn |-> c]

\* A read that cannot be completed: the 30 s timeout, or end of stream.
Failed(c) == Returned(Err, <<>>, c)

(* peer/mod.rs:273-369 read_message on the bytes b for the connection c:   *)
(* the message returned, the bytes left on the stream, the connection.     *)
Decode(b, c) ==
    IF Len(b) < 4 THEN Failed(c)
    ELSE LET len == read_u32(Take(b, 4))
             r == Drop(b, 4)
         IN  IF len = 0 THEN Returned(KeepAlive, r, c)
             ELSE IF r = <<>> THEN Failed(c)
             ELSE LET id == r[1]
                      body == Tail(r)
                  IN  CASE id = 0 ->
                             Returned(Choke, body, [c EXCEPT !.peer_choking = TRUE])
                        [] id = 1 ->
                             Returned(Unchoke, body, [c EXCEPT !.peer_choking = FALSE])
                        [] id = 2 ->
                             Returned(Interested, body,
                                      [c EXCEPT !.peer_interested = TRUE])
                        [] id = 3 ->
                             Returned(NotInterested, body,
                                      [c EXCEPT !.peer_interested = FALSE])
                        [] id = 4 ->
                             IF Len(body) < 4 THEN Failed(c)
                             ELSE LET index == read_u32(Take(body, 4))
                                  IN  Returned(Have(index), Drop(body, 4),
                                               [c EXCEPT !.bitfield = SetHave(@, index)])
                        [] id = 5 ->
                             IF Len(body) < len - 1 THEN Failed(c)
                             ELSE Returned(Bitfield(Take(body, len - 1)),
                                           Drop(body, len - 1),
                                           [c EXCEPT !.bitfield = Take(body, len - 1)])
                        [] id = 6 ->
                             IF Len(body) < 12 THEN Failed(c)
                             ELSE Returned(Request(read_u32(Take(body, 4)),
                                                   read_u32(SubSeq(body, 5, 8)),
                                                   read_u32(SubSeq(body, 9, 12))),
                                           Drop(body, 12), c)
                        [] id = 7 ->
                             IF len < 9 \/ Len(body) < len - 1 THEN Failed(c)
                             ELSE Returned(Piece(read_u32(Take(body, 4)),
                                                 read_u32(SubSeq(body, 5, 8)),
                                                 SubSeq(body, 9, len - 1)),
                                           Drop(body, len - 1), c)
                        [] id = 8 ->
                             IF Len(body) < 12 THEN Failed(c)
                             ELSE Returned(Cancel(read_u32(Take(body, 4)),
                                                  read_u32(SubSeq(body, 5, 8)),
                                                  read_u32(SubSeq(body, 9, 12))),
                                           Drop(body, 12), c)
                        [] id = 20 ->
                             IF len < 2 \/ Len(body) < len - 1 THEN Failed(c)
                             ELSE Returned(Extended(body[1], SubSeq(body, 2, len - 1)),
                                           Drop(body, len - 1), c)
                        [] OTHER -> Failed(c)

\* send_message(m) on the connection.
send_message(m) ==
    /\ peer # <<>>
    /\ Len(written) < MaxFrames
    /\ stream' = stream \o Frame(m)
    /\ written' = Append(written, m)
    /\ emitted' = <<>>
    /\ UNCHANGED <<engine, ident, entry, blocks, magnet, codec, limiter, permits, pool, walk, upload, peer, response, msg>>

(* manager.rs:155-171: the Bitfield a session sends on entry, built from   *)
(* the PieceMap st, when some piece is Have.                               *)
SendEntryBitfield(st) ==
    /\ peer # <<>>
    /\ Len(written) < MaxFrames
    /\ \E i \in 1 .. Len(st) : st[i] = "Have"
    /\ stream' = stream \o Frame(Bitfield(EmitBitfield(st)))
    /\ written' = Append(written, Bitfield(EmitBitfield(st)))
    /\ emitted' = <<st>>
    /\ UNCHANGED <<engine, ident, entry, blocks, magnet, codec, limiter, permits, pool, walk, upload, peer, response, msg>>

\* read_message on the connection; after an Err the stream is given up.
read_message ==
    /\ peer # <<>>
    /\ LET d == Decode(stream, peer[1])
       IN  /\ msg' = <<d.msg>>
           /\ peer' = <<d.conn>>
           /\ stream' = d.rest
           /\ written' = IF d.msg = Err \/ written = <<>>
                         THEN <<>> ELSE Tail(written)
    /\ UNCHANGED <<engine, ident, entry, blocks, magnet, codec, limiter, permits, pool, walk, upload, response, emitted>>

WireNext ==
    \/ \E m \in Messages : send_message(m)
    \/ \E st \in StatusVectors : SendEntryBitfield(st)
    \/ read_message

WireSpec == Init /\ [][WireNext]_vars

(* ---------------------------- serving a Request ---------------------- *)

(* manager.rs:137-139: the session starts with the torrent and the state   *)
(* of the Downloader it serves from.                                       *)
StartSeeding(t) ==
    /\ seeding = <<>>
    /\ seeding' = <<t>>
    /\ UNCHANGED <<engine, ident, entry, blocks, magnet, codec, limiter, permits, pool, walk, conn,
                   upload_limiter, uploaded_bytes, served>>

\* status.get(index).map(|&s| s == Have).unwrap_or(false), manager.rs:228
WeHave(t, index) == index < Len(t.status) /\ t.status[index + 1] = "Have"

\* rate_limit.rs refill: the tokens after `elapsed` seconds.
refill(tokens, elapsed) ==
    IF tokens + elapsed * refill_rate > capacity
    THEN capacity ELSE tokens + elapsed * refill_rate

\* What the handler did with Request { index, begin, length }.
Done(index, begin, length, piece, offset, open, how) ==
    served' = <<[index |-> index, begin |-> begin, length |-> length,
                 piece |-> piece, offset |-> offset, open |-> open, how |-> how]>>

\* A Request arm that takes the tokens before it looks at the PieceMap.
OnRequestConsumeFirst(index, begin, length, sent) ==
    /\ seeding # <<>>
    /\ \A k \in 1 .. Len(served) : served[k].open
    /\ uploaded_bytes + length <= MaxUploaded
    /\ \E elapsed \in {0, 1} :
          LET tokens == refill(upload_limiter, elapsed)
          IN  /\ tokens >= length
              /\ upload_limiter' = tokens - length
              /\ IF WeHave(seeding[1], index) /\ sent
                 THEN /\ Done(index, begin, length, TRUE,
                              index * seeding[1].piece_length + begin, TRUE, "sent")
                      /\ uploaded_bytes' = uploaded_bytes + length
                 ELSE /\ Done(index, begin, length, FALSE, 0, TRUE, "not_have")
                      /\ UNCHANGED uploaded_bytes
    /\ UNCHANGED <<engine, ident, entry, blocks, magnet, codec, limiter, permits, pool, walk, conn, seeding>>

(* manager.rs:221-265, the Request arm.  The limiter loop ends when        *)
(* consume succeeds on the refilled bucket; read_exact fails when the      *)
(* block runs past the end of the file; `sent` is the result of            *)
(* send_message(Piece).                                                    *)
OnRequest(index, begin, length, sent) ==
    /\ seeding # <<>>
    /\ \A k \in 1 .. Len(served) : served[k].open
    /\ uploaded_bytes + length <= MaxUploaded
    /\ LET t == seeding[1]
           offset == index * t.piece_length + begin
       IN  IF length > 128 * 1024
           THEN /\ Done(index, begin, length, FALSE, 0, TRUE, "too_large")
                /\ UNCHANGED <<upload_limiter, uploaded_bytes>>
           ELSE IF ~WeHave(t, index)
           THEN /\ Done(index, begin, length, FALSE, 0, TRUE, "not_have")
                /\ UNCHANGED <<upload_limiter, uploaded_bytes>>
           ELSE \E elapsed \in {0, 1} :
                  LET tokens == refill(upload_limiter, elapsed)
                  IN  /\ tokens >= length
                      /\ upload_limiter' = tokens - length
                      /\ IF offset + length > t.total_length
                         THEN /\ Done(index, begin, length, FALSE, offset, TRUE,
                                      "read_err")
                              /\ UNCHANGED uploaded_bytes
                         ELSE IF ~sent
                         THEN /\ Done(index, begin, length, TRUE, offset, FALSE,
                                      "send_err")
                              /\ UNCHANGED uploaded_bytes
                         ELSE /\ Done(index, begin, length, TRUE, offset, TRUE,
                                      "sent")
                              /\ uploaded_bytes' = uploaded_bytes + length
    /\ UNCHANGED <<engine, ident, entry, blocks, magnet, codec, limiter, permits, pool, walk, conn, seeding>>

UploadNext ==
    \/ \E t \in Torrents : StartSeeding(t)
    \/ \E index \in RequestIndexes : \E begin \in RequestBegins :
         \E length \in RequestLengths : \E sent \in BOOLEAN :
            OnRequest(index, begin, length, sent)

UploadSpec == Init /\ [][UploadNext]_vars

(* ---------------------------- the token bucket ----------------------- *)

\* rate_limit.rs:23-30
new(capacity_, refill_rate_) ==
    /\ bucket = <<>>
    /\ bucket' = <<[capacity |-> capacity_, tokens |-> capacity_,
                    refill_rate |-> refill_rate_, last_refill |-> now]>>
    /\ tally' = [consumed |-> 0, created |-> now, emptied |-> <<>>]
    /\ UNCHANGED <<engine, ident, entry, blocks, magnet, codec, permits, pool, walk, conn, upload, now, took, up_bucket, up_clock, serving>>

\* Time passes.
Tick ==
    /\ now < MaxTime
    /\ now' = now + 1
    /\ UNCHANGED <<engine, ident, entry, blocks, magnet, codec, permits, pool, walk, conn, upload, bucket, tally, took, up_bucket, up_clock, serving>>

\* A refill that adds the new tokens without looking at the capacity.
RefillUncapped(b, t) ==
    LET new_tokens == (t - b.last_refill) * b.refill_rate
    IN  IF new_tokens > 0
        THEN [b EXCEPT !.tokens = @ + new_tokens, !.last_refill = t]
        ELSE b

\* rate_limit.rs:51-60 refill, at the instant t.
refill_at(b, t) ==
    LET elapsed == t - b.last_refill
        new_tokens == elapsed * b.refill_rate
    IN  IF new_tokens > 0
        THEN [b EXCEPT !.tokens = IF @ + new_tokens < b.capacity
                                  THEN @ + new_tokens ELSE b.capacity,
                       !.last_refill = t]
        ELSE b

\* The bookkeeping of a consume call that found b after its refill.
Took(b, amount, ok) ==
    /\ took' = <<[amount |-> amount, ok |-> ok]>>
    /\ tally' = [tally EXCEPT
                    !.consumed = IF ok THEN @ + amount ELSE @,
                    !.emptied = IF ok /\ b.tokens = amount THEN <<now>>
                                ELSE IF ok /\ amount > 0 THEN <<>> ELSE @]

\* A consume that does not refill the bucket first.
ConsumeWithoutRefill(amount) ==
    /\ bucket # <<>>
    /\ LET b == bucket[1]
           ok == b.tokens >= amount
       IN  /\ bucket' = <<IF ok THEN [b EXCEPT !.tokens = @ - amount] ELSE b>>
           /\ Took(b, amount, ok)
    /\ UNCHANGED <<engine, ident, entry, blocks, magnet, codec, permits, pool, walk, conn, upload, now, up_bucket, up_clock, serving>>

\* rate_limit.rs:41-49
consume(amount) ==
    /\ bucket # <<>>
    /\ LET b == refill_at(bucket[1], now)
           ok == b.tokens >= amount
       IN  /\ bucket' = <<IF ok THEN [b EXCEPT !.tokens = @ - amount] ELSE b>>
           /\ Took(b, amount, ok)
    /\ UNCHANGED <<engine, ident, entry, blocks, magnet, codec, permits, pool, walk, conn, upload, now, up_bucket, up_clock, serving>>

BucketNext ==
    \/ \E sh \in BucketShapes : new(sh[1], sh[2])
    \/ Tick
    \/ \E amount \in Amounts : consume(amount)

BucketSpec == Init /\ [][BucketNext]_vars

(* --------------------- the bucket among the sessions ----------------- *)

\* tokio's Mutex hands its guard out in the order of the lock() calls: a
\* task comes to the limiter when the tasks that came before have consumed.
LimiterFree(s) == \A t \in Sessions \ {s} : serving[t].at # "L231"

(* manager.rs:221-230: a Request of `length` bytes for a piece that is     *)
(* Have; the session goes on to lock the limiter.                          *)
ServeRequest(s, length) ==
    /\ serving[s].at = "L197"
    /\ LimiterFree(s)
    /\ serving' = [serving EXCEPT ![s] = [at |-> "L231", length |-> length, left |-> 0]]
    /\ UNCHANGED <<engine, ident, entry, blocks, magnet, codec, permits, pool, walk, conn, upload,
                   bucket, now, tally, took, up_bucket, up_clock>>

(* manager.rs:230-237: under the lock, bucket.consume(length as f64)       *)
(* (rate_limit.rs:41-60).  When it fails the guard is dropped and the      *)
(* task sleeps; when it succeeds the task goes on to the file.  The        *)
(* Instants of the bucket enter only through duration_since               *)
(* (rate_limit.rs:53), so last_refill is kept at 0 and the clock counts    *)
(* from it.                                                                *)
TryConsume(s) ==
    /\ serving[s].at = "L231"
    /\ LET b == refill_at(up_bucket, up_clock)
           ok == b.tokens >= serving[s].length
           after == IF ok THEN [b EXCEPT !.tokens = @ - serving[s].length] ELSE b
       IN  /\ up_bucket' = [after EXCEPT !.last_refill = 0]
           /\ up_clock' = up_clock - b.last_refill
           /\ serving' = [serving EXCEPT
                            ![s].at = IF ok THEN "L239" ELSE "L234",
                            ![s].left = IF ok THEN 0 ELSE SleepTicks]
    /\ UNCHANGED <<engine, ident, entry, blocks, magnet, codec, permits, pool, walk, conn, upload,
                   bucket, now, tally, took>>

\* manager.rs:235-236: the sleep is over; the task locks the limiter again.
Retry(s) ==
    /\ serving[s].at = "L234"
    /\ serving[s].left = 0
    /\ LimiterFree(s)
    /\ serving' = [serving EXCEPT ![s].at = "L231"]
    /\ UNCHANGED <<engine, ident, entry, blocks, magnet, codec, permits, pool, walk, conn, upload,
                   bucket, now, tally, took, up_bucket, up_clock>>

\* manager.rs:239-263: the block is read and sent as a Piece.
SendPiece(s) ==
    /\ serving[s].at = "L239"
    /\ serving' = [serving EXCEPT ![s] = [at |-> "L197", length |-> 0, left |-> 0]]
    /\ UNCHANGED <<engine, ident, entry, blocks, magnet, codec, permits, pool, walk, conn, upload,
                   bucket, now, tally, took, up_bucket, up_clock>>

(* A tick passes: the sleeps run down; past FullTicks a refill fills the  *)
(* bucket whatever the time, and the clock is not counted further.  The    *)
(* limiter's guard is held for one consume only, so a task that asks for   *)
(* it, on a Request or when its sleep is over, has it within the tick.     *)
Pass ==
    /\ \A s \in Sessions :
          /\ serving[s].at # "L231"
          /\ ~(serving[s].at = "L234" /\ serving[s].left = 0)
    /\ up_clock' = IF up_clock < FullTicks THEN up_clock + 1 ELSE up_clock
    /\ serving' = [s \in Sessions |->
                     IF serving[s].left > 0
                     THEN [serving[s] EXCEPT !.left = @ - 1] ELSE serving[s]]
    /\ UNCHANGED <<engine, ident, entry, blocks, magnet, codec, permits, pool, walk, conn, upload,
                   bucket, now, tally, took, up_bucket>>

LimiterNext ==
    \/ Pass
    \/ \E s \in Sessions :
          \/ \E length \in ServeLengths : ServeRequest(s, length)
          \/ TryConsume(s)
          \/ Retry(s)
          \/ SendPiece(s)

(* Time passes, and a session task that can go on does: it takes the lock  *)
(* of the limiter, it wakes from its sleep, it reads the file and writes   *)
(* to its peer.  When a peer sends a Request is the peer's choice.         *)
FairLimiterSpec ==
    /\ Init /\ [][LimiterNext]_vars
    /\ WF_vars(Pass)
    /\ \A s \in Sessions :
          WF_vars(TryConsume(s)) /\ WF_vars(Retry(s)) /\ WF_vars(SendPiece(s))

(* ---------------------------- the bencoding codec -------------------- *)

\* to_string of an integer: its decimal digits in ASCII, '-' first when
\* it is negative.
RECURSIVE Digits(_)
Digits(n) == IF n < 10 THEN <<48 + n>> ELSE Digits(n \div 10) \o <<48 + (n % 10)>>

to_string(i) == IF i < 0 THEN <<45>> \o Digits(0 - i) ELSE Digits(i)

\* The number a non-empty run of ASCII digits stands for.
RECURSIVE DigitsValue(_)
DigitsValue(s) ==
    IF s = <<>> THEN 0 ELSE 10 * DigitsValue(SubSeq(s, 1, Len(s) - 1)) + (s[Len(s)] - 48)

AllDigits(s) == s # <<>> /\ \A k \in 1 .. Len(s) : s[k] \in 48 .. 57

\* str::parse::<i64>: an optional sign, then digits.
parse_i64(s) ==
    IF s # <<>> /\ s[1] \in {43, 45}
    THEN IF AllDigits(Tail(s))
         THEN [ok |-> TRUE,
               num |-> IF s[1] = 45 THEN 0 - DigitsValue(Tail(s)) ELSE DigitsValue(Tail(s))]
         ELSE [ok |-> FALSE, num |-> 0]
    ELSE IF AllDigits(s) THEN [ok |-> TRUE, num |-> DigitsValue(s)]
         ELSE [ok |-> FALSE, num |-> 0]

\* str::parse::<usize>: an optional '+', then digits.
parse_usize(s) ==
    IF s # <<>> /\ s[1] = 43
    THEN IF AllDigits(Tail(s)) THEN [ok |-> TRUE, num |-> DigitsValue(Tail(s))]
         ELSE [ok |-> FALSE, num |-> 0]
    ELSE IF AllDigits(s) THEN [ok |-> TRUE, num |-> DigitsValue(s)]
         ELSE [ok |-> FALSE, num |-> 0]

\* decoder.rs:21-58 encode
RECURSIVE encode(_), EncodeItems(_), EncodeEntries(_)
encode(v) ==
    CASE v.tag = "Int" -> <<105>> \o to_string(v.int) \o <<101>>
      [] v.tag = "Bytes" -> to_string(Len(v.bytes)) \o <<58>> \o v.bytes
      [] v.tag = "List" -> <<108>> \o EncodeItems(v.items) \o <<101>>
      [] v.tag = "Dict" -> <<100>> \o EncodeEntries(v.items) \o <<101>>

EncodeItems(l) == IF l = <<>> THEN <<>> ELSE encode(Head(l)) \o EncodeItems(Tail(l))

EncodeEntries(d) ==
    IF d = <<>> THEN <<>>
    ELSE to_string(Len(Head(d)[1])) \o <<58>> \o Head(d)[1]
            \o encode(Head(d)[2]) \o EncodeEntries(Tail(d))

\* What decode returns and where it leaves the cursor.
Decoded(val, pos) == [ok |-> TRUE, val |-> val, pos |-> pos]
DecodeErr(pos) == [ok |-> FALSE, val |-> BInt(0), pos |-> pos]

\* The loop `while *pos < input.len() && input[*pos] != ch { *pos += 1 }`.
RECURSIVE Scan(_, _, _)
Scan(input, pos, ch) ==
    IF pos < Len(input) /\ input[pos + 1] # ch THEN Scan(input, pos + 1, ch) ELSE pos

\* decoder.rs:65-208 decode, the cursor counted from 0 as in the source.
RECURSIVE decode(_, _), DecodeList(_, _, _), DecodeDict(_, _, _)
decode(input, pos) ==
    IF pos >= Len(input) THEN DecodeErr(pos)
    ELSE LET c == input[pos + 1]
         IN  CASE c = 105 ->
                    LET stop == Scan(input, pos + 1, 101)
                        num == parse_i64(SubSeq(input, pos + 2, stop))
                    IN  IF stop >= Len(input) \/ ~num.ok THEN DecodeErr(stop)
                        ELSE Decoded(BInt(num.num), stop + 1)
               [] c = 108 -> DecodeList(input, pos + 1, <<>>)
               [] c = 100 -> DecodeDict(input, pos + 1, <<>>)
               [] c \in 48 .. 57 ->
                    LET stop == Scan(input, pos, 58)
                        len == parse_usize(SubSeq(input, pos + 1, stop))
                    IN  IF stop >= Len(input) \/ ~len.ok THEN DecodeErr(stop)
                        ELSE IF stop + 1 + len.num > Len(input) THEN DecodeErr(stop + 1)
                        ELSE Decoded(BBytes(SubSeq(input, stop + 2, stop + 1 + len.num)),
                                     stop + 1 + len.num)
               [] OTHER -> DecodeErr(pos)

DecodeList(input, pos, list) ==
    IF pos < Len(input) /\ input[pos + 1] # 101
    THEN LET item == decode(input, pos)
         IN  IF ~item.ok THEN DecodeErr(item.pos)
             ELSE DecodeList(input, item.pos, Append(list, item.val))
    ELSE IF pos >= Len(input) THEN DecodeErr(pos)
    ELSE Decoded(BList(list), pos + 1)

DecodeDict(input, pos, dict) ==
    IF pos < Len(input) /\ input[pos + 1] # 101
    THEN LET key_obj == decode(input, pos)
         IN  IF ~key_obj.ok \/ key_obj.val.tag # "Bytes" THEN DecodeErr(key_obj.pos)
             ELSE LET val == decode(input, key_obj.pos)
                  IN  IF ~val.ok THEN DecodeErr(val.pos)
                      ELSE DecodeDict(input, val.pos,
                                      insert(dict, key_obj.val.bytes, val.val))
    ELSE IF pos >= Len(input) THEN DecodeErr(pos)
    ELSE Decoded(BDict(dict), pos + 1)

\* v.encode()
Encode(v) ==
    /\ value' = <<v>>
    /\ encoded' = encode(v)
    /\ decoded' = <<>>
    /\ UNCHANGED <<engine, ident, entry, blocks, magnet, permits, pool, walk, conn, upload, limiter>>

\* decode(&encoded, &mut 0)
DecodeEncoded ==
    /\ value # <<>>
    /\ decoded' = <<decode(encoded, 0)>>
    /\ UNCHANGED <<engine, ident, entry, blocks, magnet, permits, pool, walk, conn, upload, limiter, value, encoded>>

CodecNext ==
    \/ \E v \in Values : Encode(v)
    \/ DecodeEncoded

CodecSpec == Init /\ [][CodecNext]_vars

(* ---------------------------- magnet: resolve ------------------------ *)

\* b"m", b"ut_metadata", b"ut_pex"
Key_m == <<109>>
Key_ut_metadata == <<117, 116, 95, 109, 101, 116, 97, 100, 97, 116, 97>>
Key_ut_pex == <<117, 116, 95, 112, 101, 120>>

\* magnet.rs:137-146: the payload of the extension handshake of a fetch.
MetadataHandshake ==
    LET ut_metadata_dict == insert(<<>>, Key_ut_metadata, BInt(2))
        m == insert(<<>>, Key_ut_metadata, BDict(ut_metadata_dict))
        handshake_payload == insert(<<>>, Key_m, BDict(m))
    IN  encode(BDict(handshake_payload))

\* The DHT task finds a peer (dht/mod.rs:169-183 parse_peers).
DhtFound(p) ==
    /\ p \notin found_peers
    /\ found_peers' = found_peers \cup {p}
    /\ UNCHANGED <<engine, ident, entry, blocks, permits, pool, walk, conn, upload, limiter, codec,
                   timer, resolve_at, result, searched_peers, metadata_rx,
                   fetch, sent_ext, ext_rx>>

\* Time passes.
TimerTick ==
    /\ timer < Deadline
    /\ timer' = timer + 1
    /\ UNCHANGED <<engine, ident, entry, blocks, permits, pool, walk, conn, upload, limiter, codec,
                   resolve_at, result, found_peers, searched_peers, metadata_rx,
                   fetch, sent_ext, ext_rx>>

\* magnet.rs:78-80: the deadline branch of the select.
ResolveTimeout ==
    /\ resolve_at = "loop"
    /\ timer >= Deadline
    /\ resolve_at' = "timeout"
    /\ UNCHANGED <<engine, ident, entry, blocks, permits, pool, walk, conn, upload, limiter, codec,
                   timer, result, found_peers, searched_peers, metadata_rx,
                   fetch, sent_ext, ext_rx>>

\* magnet.rs:81-85: rx.recv() gave Some(data).
ResolveRecv ==
    /\ resolve_at = "loop"
    /\ metadata_rx # <<>>
    /\ result' = <<Head(metadata_rx)>>
    /\ metadata_rx' = Tail(metadata_rx)
    /\ resolve_at' = "ok"
    /\ UNCHANGED <<engine, ident, entry, blocks, permits, pool, walk, conn, upload, limiter, codec,
                   timer, found_peers, searched_peers, fetch, sent_ext, ext_rx>>

\* A 500 ms branch that arms the deadline again.
ResolveSleepRearming ==
    /\ resolve_at = "loop"
    /\ timer' = 0
    /\ found_peers' = {}
    /\ searched_peers' = searched_peers \cup found_peers
    /\ fetch' = [p \in MetaPeers |->
                    IF p \in found_peers \ searched_peers
                    THEN Fetch("connect", 0, 0, <<>>, 0) ELSE fetch[p]]
    /\ UNCHANGED <<engine, ident, entry, blocks, permits, pool, walk, conn, upload, limiter, codec,
                   resolve_at, result, metadata_rx, sent_ext, ext_rx>>

(* magnet.rs:86-107: the 500 ms branch takes the peers found, and spawns   *)
(* a fetch for each one that was not searched before.                      *)
ResolveSleep ==
    /\ resolve_at = "loop"
    /\ found_peers' = {}
    /\ searched_peers' = searched_peers \cup found_peers
    /\ fetch' = [p \in MetaPeers |->
                    IF p \in found_peers \ searched_peers
                    THEN Fetch("connect", 0, 0, <<>>, 0) ELSE fetch[p]]
    /\ UNCHANGED <<engine, ident, entry, blocks, permits, pool, walk, conn, upload, limiter, codec,
                   timer, resolve_at, result, metadata_rx, sent_ext, ext_rx>>

(* magnet.rs:124-152: connect within 3 s and send the extension handshake; *)
(* ~ok is a failed or timed-out connect, or a failed send.                 *)
FetchConnect(p, ok) ==
    /\ fetch[p].pc = "connect"
    /\ IF ok
       THEN /\ fetch' = [fetch EXCEPT ![p] = Fetch("handshake", 0, 0, <<>>, 0)]
            /\ sent_ext' = MetadataHandshake
       ELSE /\ fetch' = [fetch EXCEPT ![p] = Fetch("failed", 0, 0, <<>>, 0)]
            /\ UNCHANGED sent_ext
    /\ UNCHANGED <<engine, ident, entry, blocks, permits, pool, walk, conn, upload, limiter, codec,
                   timer, resolve_at, result, found_peers, searched_peers, metadata_rx, ext_rx>>

(* magnet.rs:154-211: the handshake of the peer gives its ut_metadata id   *)
(* and metadata_size (here in pieces); the buffer is allocated and every   *)
(* piece requested.                                                        *)
FetchHandshake(p, id, size) ==
    /\ fetch[p].pc = "handshake"
    /\ fetch' = [fetch EXCEPT ![p] =
                    IF id = 0 \/ size = 0
                    THEN Fetch("failed", 0, 0, <<>>, 0)
                    ELSE Fetch("download", id, size, [k \in 1 .. size |-> 0], 0)]
    /\ UNCHANGED <<engine, ident, entry, blocks, permits, pool, walk, conn, upload, limiter, codec,
                   timer, resolve_at, result, found_peers, searched_peers, metadata_rx,
                   sent_ext, ext_rx>>

\* A read error, a timeout (5 s, 10 s), a reject, a payload that does not
\* decode, a failed send of a request.
FetchFail(p) ==
    /\ fetch[p].pc \in {"handshake", "download"}
    /\ fetch' = [fetch EXCEPT ![p] = Fetch("failed", 0, 0, <<>>, 0)]
    /\ UNCHANGED <<engine, ident, entry, blocks, permits, pool, walk, conn, upload, limiter, codec,
                   timer, resolve_at, result, found_peers, searched_peers, metadata_rx,
                   sent_ext, ext_rx>>

\* A fetch that delivers whatever buffer it assembled.
VerifiedAlways(buffer) == TRUE

\* magnet.rs:260-265
Verified(buffer) == Sha1Of(buffer) = MagnetHash

\* magnet.rs:235-241: the buffer after the data of piece piece_index.
Stored(buffer, piece_index, data) ==
    LET start == piece_index
        end == IF start + Len(data) < Len(buffer) THEN start + Len(data) ELSE Len(buffer)
    IN  [k \in 1 .. Len(buffer) |->
            IF k > start /\ k <= end THEN data[k - start] ELSE buffer[k]]

\* magnet.rs:140: the id the fetch assigns to ut_metadata in its handshake.
OwnMetadataId == 2

\* magnet.rs:217-218: `if id == ut_metadata_id`, the id the peer advertised.
FromMetadataId(f, id) == id = f.ut_metadata_id

(* magnet.rs:214-271: an Extended message under id, a data message for     *)
(* piece piece_index; with the last one counted the buffer is hashed, and  *)
(* kept for resolve or dropped.                                            *)
FetchData(p, id, piece_index, data) ==
    /\ fetch[p].pc = "download"
    /\ ext_rx' = <<[id |-> id, taken |-> FromMetadataId(fetch[p], id)]>>
    /\ LET f == fetch[p]
           stores == /\ FromMetadataId(f, id)
                     /\ data # <<>> /\ piece_index < Len(f.metadata)
           buffer == IF stores THEN Stored(f.metadata, piece_index, data) ELSE f.metadata
           received == IF stores THEN f.received_pieces + 1 ELSE f.received_pieces
       IN  fetch' = [fetch EXCEPT ![p] =
                        IF received < f.num_pieces
                        THEN Fetch("download", f.ut_metadata_id, f.num_pieces,
                                   buffer, received)
                        ELSE IF Verified(buffer)
                        THEN Fetch("sending", f.ut_metadata_id, f.num_pieces,
                                   buffer, received)
                        ELSE Fetch("failed", f.ut_metadata_id, f.num_pieces,
                                   <<>>, received)]
    /\ UNCHANGED <<engine, ident, entry, blocks, permits, pool, walk, conn, upload, limiter, codec,
                   timer, resolve_at, result, found_peers, searched_peers, metadata_rx,
                   sent_ext>>

(* magnet.rs:267 tx.send(metadata).await: waits for room in the channel;   *)
(* an error, when resolve has returned, is ignored.                        *)
FetchSend(p) ==
    /\ fetch[p].pc = "sending"
    /\ resolve_at = "loop" => metadata_rx = <<>>
    /\ metadata_rx' = IF resolve_at = "loop"
                      THEN Append(metadata_rx, fetch[p].metadata) ELSE metadata_rx
    /\ fetch' = [fetch EXCEPT ![p].pc = "done"]
    /\ UNCHANGED <<engine, ident, entry, blocks, permits, pool, walk, conn, upload, limiter, codec,
                   timer, resolve_at, result, found_peers, searched_peers, sent_ext, ext_rx>>

MagnetNext ==
    \/ \E p \in MetaPeers : DhtFound(p)
    \/ TimerTick
    \/ ResolveTimeout
    \/ ResolveRecv
    \/ ResolveSleep
    \/ \E p \in MetaPeers : \E ok \in BOOLEAN : FetchConnect(p, ok)
    \/ \E p \in MetaPeers : \E id \in {0, 3} : \E size \in 0 .. MaxMetaPieces :
         FetchHandshake(p, id, size)
    \/ \E p \in MetaPeers : FetchFail(p)
    \/ \E p \in MetaPeers : \E id \in {OwnMetadataId, 3} :
         \E piece_index \in 0 .. MaxMetaPieces :
           \E data \in MetaData : FetchData(p, id, piece_index, data)
    \/ \E p \in MetaPeers : FetchSend(p)

MagnetSpec == Init /\ [][MagnetNext]_vars

\* The clock runs, and resolve takes a branch of its select that is ready.
FairMagnetSpec ==
    /\ MagnetSpec
    /\ WF_vars(TimerTick)
    /\ WF_vars(ResolveTimeout)
    /\ WF_vars(ResolveRecv)

(* ---------------------------- the peer id ---------------------------- *)

(* init.rs:42-49, 85: from_torrent draws the peer id of the Downloader     *)
(* (the rest of the Downloader is as Init has it).                         *)
from_torrent(id) ==
    /\ peer_id = <<>>
    /\ peer_id' = PeerId(id)
    /\ UNCHANGED <<engine, permits, pool, walk, conn, upload, limiter, codec,
                   magnet, entry, blocks, handshakes>>

(* manager.rs:128, 145: a session task connects with the peer id of the    *)
(* Downloader.                                                             *)
SessionConnect ==
    /\ peer_id # <<>>
    /\ Len(handshakes) < MaxHandshakes
    /\ handshakes' = Append(handshakes,
                            [by |-> "session", bytes |-> Handshake(info_hash, peer_id)])
    /\ UNCHANGED <<engine, permits, pool, walk, conn, upload, limiter, codec,
                   magnet, entry, blocks, peer_id>>

(* magnet.rs:124-129: a metadata fetch connects with a client_id it has    *)
(* just drawn.                                                             *)
FetchConnectWith(client_id) ==
    /\ Len(handshakes) < MaxHandshakes
    /\ handshakes' = Append(handshakes,
                            [by |-> "fetch", bytes |-> Handshake(info_hash, client_id)])
    /\ UNCHANGED <<engine, permits, pool, walk, conn, upload, limiter, codec,
                   magnet, entry, blocks, peer_id>>

PeerIdNext ==
    \/ \E id \in RandomIds : from_torrent(id)
    \/ SessionConnect
    \/ \E client_id \in RandomIds : FetchConnectWith(client_id)

PeerIdSpec == Init /\ [][PeerIdNext]_vars

(* ---------------------------- session entry ------------------------- *)

\* manager.rs:178-183: the payload of the extension handshake of a session.
SessionExtHandshake ==
    LET m == insert(<<>>, Key_ut_pex, BInt(1))
        handshake == insert(<<>>, Key_m, BDict(m))
    IN  encode(BDict(handshake))

(* manager.rs:296-300: another session, sharing piece_status, stores a     *)
(* verified piece.                                                         *)
OtherSessionStores(i) ==
    /\ entry_status[i + 1] = "Missing"
    /\ entry_status' = [entry_status EXCEPT ![i + 1] = "Have"]
    /\ UNCHANGED <<engine, permits, pool, walk, conn, upload, limiter, codec,
                   magnet, ident, blocks, entry_at, seen, sends>>

\* An entry that sends a Bitfield whatever the PieceMap holds.
EntryBitfieldAlways(ok) ==
    /\ entry_at = "connected"
    /\ seen' = <<entry_status>>
    /\ sends' = Append(sends, Sent(Bitfield(EmitBitfield(entry_status)), ok))
    /\ entry_at' = IF ok THEN "interested" ELSE "returned"
    /\ UNCHANGED <<engine, permits, pool, walk, conn, upload, limiter, codec,
                   magnet, ident, blocks, entry_status>>

(* manager.rs:155-171: under the lock, if any piece is Have the Bitfield   *)
(* is built and sent; an error of the send ends the task.                  *)
EntryBitfield(ok) ==
    /\ entry_at = "connected"
    /\ seen' = <<entry_status>>
    /\ IF \E i \in 1 .. Len(entry_status) : entry_status[i] = "Have"
       THEN /\ sends' = Append(sends, Sent(Bitfield(EmitBitfield(entry_status)), ok))
            /\ entry_at' = IF ok THEN "interested" ELSE "returned"
       ELSE /\ ok
            /\ sends' = sends
            /\ entry_at' = "interested"
    /\ UNCHANGED <<engine, permits, pool, walk, conn, upload, limiter, codec,
                   magnet, ident, blocks, entry_status>>

\* manager.rs:173-176: Interested; an error of the send ends the task.
EntryInterested(ok) ==
    /\ entry_at = "interested"
    /\ sends' = Append(sends, Sent(Interested, ok))
    /\ entry_at' = IF ok THEN "extended" ELSE "returned"
    /\ UNCHANGED <<engine, permits, pool, walk, conn, upload, limiter, codec,
                   magnet, ident, blocks, entry_status, seen>>

(* manager.rs:178-193: the extension handshake; an error of the send is    *)
(* printed and the task goes on into its loop.                             *)
EntryExtended(ok) ==
    /\ entry_at = "extended"
    /\ sends' = Append(sends, Sent(Extended(0, SessionExtHandshake), ok))
    /\ entry_at' = "loop"
    /\ UNCHANGED <<engine, permits, pool, walk, conn, upload, limiter, codec,
                   magnet, ident, blocks, entry_status, seen>>

(* manager.rs:414-430: in the loop, a Request for a block of a piece that  *)
(* is not Have; an error of the send leaves the `for`, not the loop.       *)
LoopRequest(index, begin, ok) ==
    /\ entry_at = "loop"
    /\ Len(sends) < MaxSends
    /\ entry_status[index + 1] # "Have"
    /\ sends' = Append(sends, Sent(Request(index, begin, block_size), ok))
    /\ UNCHANGED <<engine, permits, pool, walk, conn, upload, limiter, codec,
                   magnet, ident, blocks, entry_at, entry_status, seen>>

(* manager.rs:221-255: in the loop, the Piece that answers a Request for a *)
(* piece that is Have; an error of the send leaves the loop.               *)
LoopPiece(index, ok) ==
    /\ entry_at = "loop"
    /\ Len(sends) < MaxSends
    /\ entry_status[index + 1] = "Have"
    /\ sends' = Append(sends, Sent(Piece(index, 0, <<7>>), ok))
    /\ entry_at' = IF ok THEN "loop" ELSE "returned"
    /\ UNCHANGED <<engine, permits, pool, walk, conn, upload, limiter, codec,
                   magnet, ident, blocks, entry_status, seen>>

\* manager.rs:200-216: the loop is left on a read error or on completion.
LoopBreak ==
    /\ entry_at = "loop"
    /\ entry_at' = "returned"
    /\ UNCHANGED <<engine, permits, pool, walk, conn, upload, limiter, codec,
                   magnet, ident, blocks, entry_status, seen, sends>>

EntryNext ==
    \/ \E i \in EntryPieces : OtherSessionStores(i)
    \/ \E ok \in BOOLEAN : EntryBitfield(ok)
    \/ \E ok \in BOOLEAN : EntryInterested(ok)
    \/ \E ok \in BOOLEAN : EntryExtended(ok)
    \/ \E index \in EntryPieces : \E begin \in {0, block_size} : \E ok \in BOOLEAN :
          LoopRequest(index, begin, ok)
    \/ \E index \in EntryPieces : \E ok \in BOOLEAN : LoopPiece(index, ok)
    \/ LoopBreak

EntrySpec == Init /\ [][EntryNext]_vars

(* ---------------------------- a session, block by block ------------- *)

\* from_torrent (init.rs:60-93): every piece Missing.
Open(t) ==
    /\ torrent = <<>>
    /\ torrent' = <<t>>
    /\ piece_map' = [k \in 1 .. PieceCount(t) |-> "Missing"]
    /\ UNCHANGED <<engine, permits, pool, walk, conn, upload, limiter, codec,
                   magnet, ident, entry, task, requested, d_total, stored, hashed>>

\* A Piece arm that takes a block for any piece.
OnPieceAnyIndex(index, begin, len, content) ==
    /\ torrent # <<>>
    /\ task.at = "read"
    /\ IF task.current_piece_idx # <<>> /\ begin + len <= task.data_len
       THEN task' = [task EXCEPT !.data = Append(@, Write(begin, len, content)),
                                 !.blocks_received = @ + 1, !.at = "select",
                                 !.got = <<Inb(index, begin, len, content)>>]
       ELSE task' = [task EXCEPT !.at = "select",
                                 !.got = <<Inb(index, begin, len, content)>>]
    /\ UNCHANGED <<engine, permits, pool, walk, conn, upload, limiter, codec,
                   magnet, ident, entry, torrent, piece_map, requested, d_total,
                   stored, hashed>>

(* manager.rs:269-334: the Piece arm.  A block for the current piece that  *)
(* lies in the buffer is copied in and counted; when the count reaches     *)
(* blocks_total the buffer is hashed: on a match it is written at          *)
(* curr * piece_length, the piece becomes Have and downloaded_total grows  *)
(* by the buffer's length; otherwise the piece goes back to Missing and    *)
(* the loop is left.                                                       *)
OnPiece(index, begin, len, content) ==
    /\ torrent # <<>>
    /\ task.at = "read"
    /\ LET got == <<Inb(index, begin, len, content)>>
           ws == Append(task.data, Write(begin, len, content))
           counted == [task EXCEPT !.data = ws, !.blocks_received = @ + 1,
                                   !.got = got]
       IN  IF task.current_piece_idx = <<index>> /\ begin + len <= task.data_len
           THEN IF task.blocks_received + 1 = task.blocks_total
                THEN /\ hashed' = <<[index |-> index, data |-> ws,
                                     data_len |-> task.data_len,
                                     requested |-> requested]>>
                     /\ IF BufferMatches(ws, task.data_len)
                        THEN /\ stored' = Append(stored,
                                     [offset |-> index * torrent[1].piece_length,
                                      len |-> task.data_len])
                             /\ piece_map' = [piece_map EXCEPT ![index + 1] = "Have"]
                             /\ d_total' = d_total + task.data_len
                             /\ task' = [counted EXCEPT !.current_piece_idx = <<>>,
                                                        !.at = "select"]
                        ELSE /\ piece_map' = [piece_map EXCEPT ![index + 1] = "Missing"]
                             /\ task' = [counted EXCEPT !.current_piece_idx = <<>>,
                                                        !.at = "closed"]
                             /\ UNCHANGED <<stored, d_total>>
                ELSE /\ task' = [counted EXCEPT !.at = "select"]
                     /\ UNCHANGED <<piece_map, d_total, stored, hashed>>
           ELSE /\ task' = [task EXCEPT !.at = "select", !.got = got]
                /\ UNCHANGED <<piece_map, d_total, stored, hashed>>
    /\ UNCHANGED <<engine, permits, pool, walk, conn, upload, limiter, codec,
                   magnet, ident, entry, torrent, requested>>

\* Any other message: its arm leaves the locals of the download alone.
OnOther ==
    /\ torrent # <<>>
    /\ task.at = "read"
    /\ task' = [task EXCEPT !.at = "select", !.got = <<>>]
    /\ UNCHANGED <<engine, permits, pool, walk, conn, upload, limiter, codec,
                   magnet, ident, entry, torrent, piece_map, requested, d_total,
                   stored, hashed>>

\* manager.rs:200-210: read_message fails; the current piece is given back.
OnReadError ==
    /\ torrent # <<>>
    /\ task.at = "read"
    /\ task' = [task EXCEPT !.at = "closed", !.got = <<>>]
    /\ piece_map' = [k \in 1 .. Len(piece_map) |->
                        IF task.current_piece_idx = <<k - 1>> /\ piece_map[k] = "InProgress"
                        THEN "Missing" ELSE piece_map[k]]
    /\ UNCHANGED <<engine, permits, pool, walk, conn, upload, limiter, codec,
                   magnet, ident, entry, torrent, requested, d_total, stored, hashed>>

\* A selection step that asks for whole blocks only.
SelectWholeBlocks(unchoked, i, failed) ==
    /\ task.at = "select"
    /\ unchoked /\ task.current_piece_idx = <<>> /\ failed = 0
    /\ i < Len(piece_map) /\ piece_map[i + 1] = "Missing"
    /\ LET p_len == PLen(torrent[1], i)
       IN  /\ piece_map' = [piece_map EXCEPT ![i + 1] = "InProgress"]
           /\ requested' = [b \in 1 .. BlocksTotal(p_len) |->
                               Request(i, (b - 1) * block_size, block_size)]
           /\ task' = [at |-> "read", got |-> <<>>, current_piece_idx |-> <<i>>,
                       data_len |-> p_len, data |-> <<>>,
                       blocks_received |-> 0, blocks_total |-> BlocksTotal(p_len)]
    /\ UNCHANGED <<engine, permits, pool, walk, conn, upload, limiter, codec,
                   magnet, ident, entry, torrent, d_total, stored, hashed>>

(* manager.rs:367-432: the selection step that closes an iteration, for a  *)
(* peer that has every piece.  `failed` is the number of the Request whose *)
(* send fails, 0 if none does; the Requests before it were sent.           *)
Select(unchoked, i, failed) ==
    /\ task.at = "select"
    /\ IF unchoked /\ task.current_piece_idx = <<>>
       THEN IF \A k \in 1 .. Len(piece_map) : piece_map[k] = "Have"
            THEN /\ i = 0 /\ failed = 0
                 /\ task' = [task EXCEPT !.at = "closed", !.got = <<>>]
                 /\ UNCHANGED <<piece_map, requested>>
            ELSE IF \A k \in 1 .. Len(piece_map) : piece_map[k] # "Missing"
            THEN /\ i = 0 /\ failed = 0
                 /\ task' = [task EXCEPT !.at = "read", !.got = <<>>]
                 /\ UNCHANGED <<piece_map, requested>>
            ELSE /\ i < Len(piece_map) /\ piece_map[i + 1] = "Missing"
                 /\ LET p_len == PLen(torrent[1], i)
                        all == RequestsFrom(i, p_len, 0)
                    IN  /\ failed <= BlocksTotal(p_len)
                        /\ IF failed = 0
                           THEN /\ piece_map' = [piece_map EXCEPT ![i + 1] = "InProgress"]
                                /\ requested' = all
                                /\ task' = [at |-> "read", got |-> <<>>, current_piece_idx |-> <<i>>,
                                            data_len |-> p_len, data |-> <<>>,
                                            blocks_received |-> 0,
                                            blocks_total |-> BlocksTotal(p_len)]
                           ELSE /\ piece_map' = [piece_map EXCEPT ![i + 1] = "Missing"]
                                /\ requested' = SubSeq(all, 1, failed - 1)
                                /\ task' = [at |-> "read", got |-> <<>>, current_piece_idx |-> <<>>,
                                            data_len |-> p_len, data |-> <<>>,
                                            blocks_received |-> 0,
                                            blocks_total |-> BlocksTotal(p_len)]
       ELSE /\ i = 0 /\ failed = 0
            /\ task' = [task EXCEPT !.at = "read", !.got = <<>>]
            /\ UNCHANGED <<piece_map, requested>>
    /\ UNCHANGED <<engine, permits, pool, walk, conn, upload, limiter, codec,
                   magnet, ident, entry, torrent, d_total, stored, hashed>>

\* The Piece messages a peer sends: for either piece, at and past the block
\* boundaries, of no bytes, of a block, of the rest of the current buffer.
Inbound ==
    {p \in [index : {0, 1}, begin : {0, block_size, 2 * block_size},
            len : {0, block_size} \cup {task.data_len - b : b \in {0, block_size, 2 * block_size}},
            content : {"orig", "junk"}] :
        p.len >= 0 /\ p.len \in {0, block_size, task.data_len - p.begin}}

BlockNext ==
    \/ \E t \in Shapes : Open(t)
    \/ \E p \in Inbound : OnPiece(p.index, p.begin, p.len, p.content)
    \/ OnOther
    \/ OnReadError
    \/ \E unchoked \in BOOLEAN : \E i \in {0, 1} : \E failed \in 0 .. 3 :
          Select(unchoked, i, failed)

BlockSpec == Init /\ [][BlockNext]_vars

(* ---------------------------- the handshake -------------------------- *)

\* The replies a remote may give: well formed, or wrong in one or more
\* parts, or cut short; <<>> when the TCP connection cannot be made.
Replies ==
    {<<pstrlen>> \o pstr \o reserved \o hash \o id :
        pstrlen \in {19, 18},
        pstr \in {ProtocolString, [ProtocolString EXCEPT ![19] = 76]},
        reserved \in {[i \in 1 .. 8 |-> 0], [i \in 1 .. 8 |-> IF i = 6 THEN 16 ELSE 0]},
        hash \in {info_hash, OtherHash},
        id \in {RemoteIds[1], RemoteIds[2]}}
      \cup {<<>>, Take(<<19>> \o ProtocolString \o [i \in 1 .. 8 |-> 0]
                           \o info_hash \o RemoteIds[2], 67)}

\* A connect that does not compare the info hash of the reply.
ConnectAnyHash(reply) ==
    /\ response' = reply
    /\ IF Len(reply) < 68 \/ reply[1] # 19 \/ SubSeq(reply, 2, 20) # ProtocolString
       THEN peer' = <<>> /\ msg' = <<Err>>
       ELSE peer' = <<NewConnection(SubSeq(reply, 49, 68))>> /\ msg' = <<>>
    /\ stream' = <<>> /\ written' = <<>> /\ emitted' = <<>>
    /\ UNCHANGED <<engine, ident, entry, blocks, magnet, codec, limiter, permits, pool, walk, upload>>

(* peer/mod.rs:147-191 connect, on the reply the remote gives: the TCP     *)
(* connection, the 68 bytes read back, the prefix, the info hash.          *)
connect(reply) ==
    /\ response' = reply
    /\ IF reply = <<>> \/ Len(reply) < 68
       THEN peer' = <<>> /\ msg' = <<Err>>
       ELSE IF reply[1] # 19 \/ SubSeq(reply, 2, 20) # ProtocolString
       THEN peer' = <<>> /\ msg' = <<Err>>
       ELSE IF SubSeq(reply, 29, 48) # info_hash
       THEN peer' = <<>> /\ msg' = <<Err>>
       ELSE peer' = <<NewConnection(SubSeq(reply, 49, 68))>> /\ msg' = <<>>
    /\ stream' = <<>> /\ written' = <<>> /\ emitted' = <<>>
    /\ UNCHANGED <<engine, ident, entry, blocks, magnet, codec, limiter, permits, pool, walk, upload>>

HandshakeNext == \E reply \in Replies : connect(reply)

HandshakeSpec == Init /\ [][HandshakeNext]_vars

(* ---------------------------- properties ------------------------------ *)

Live(s) == pc[s] = "loop"

\* A value was sent on the completion broadcast channel.
CompletionReported ==
    \/ completion_rx
    \/ mgr = "completed"
    \/ \E s \in Sessions : outcome[s] = "complete"

\* Bytes were added to downloaded_bytes since run computed request_left.
DownloadedInRun ==
    /\ mgr # "init"
    /\ request_left >= 0
    /\ downloaded_bytes > total_length - request_left

\* The errors of a session's loop: read, storage, Piece send, Request send, hash.
SessionFailures ==
    {"read_err", "storage_err", "piece_send_err", "request_send_err",
     "hash_mismatch"}

(* C1: for every piece i whose status is InProgress, at most one session   *)
(* has i as its current piece: two sessions never claim the same piece.    *)
C1_AtMostOneSessionPerPiece ==
    \A i \in Pieces :
        piece_status[i] = "InProgress" =>
            Cardinality({s \in Sessions : Live(s) /\ current_piece_idx[s] = {i}}) <= 1

\* Two sessions hold different pieces, and the peer of one also has the other's piece.
C1_Witness ==
    \E s, t \in Sessions : \E i, j \in Pieces :
        /\ s # t /\ i # j
        /\ Live(s) /\ Live(t)
        /\ current_piece_idx[s] = {i} /\ current_piece_idx[t] = {j}
        /\ i \in bitfield[t]
        /\ piece_status[i] = "InProgress" /\ piece_status[j] = "InProgress"

(* C2: downloaded_bytes equals the sum of the natural lengths of the       *)
(* pieces whose status is Have.                                            *)
C2_DownloadedEqualsHaveSum ==
    downloaded_bytes = SumLen(HaveSet(piece_status))

(* C3: the file region of every piece that is Have holds data whose SHA-1  *)
(* is the piece's hash, and once completion is reported every piece is     *)
(* Have, so the whole file is verified.                                    *)
C3_CompletionImpliesVerifiedFile ==
    /\ \A i \in Pieces :
          piece_status[i] = "Have" => Sha1(i, file[i]) = pieces[i]
    /\ CompletionReported =>
          \A i \in Pieces :
              piece_status[i] = "Have" /\ Sha1(i, file[i]) = pieces[i]

\* The manager saw the completion of a download in which sessions stored pieces.
C3_Witness ==
    /\ mgr = "completed"
    /\ DownloadedInRun
    /\ AllHave(piece_status)
    /\ \E s \in Sessions : outcome[s] = "hash_mismatch"

(* C4: once run has started, the status of a piece changes only from       *)
(* Missing to InProgress, from InProgress to Have and from InProgress to   *)
(* Missing; in particular a piece that is Have stays Have.                 *)
C4_StatusTransitions ==
    [][mgr # "init" =>
         \A i \in Pieces :
             piece_status'[i] # piece_status[i] =>
                 <<piece_status[i], piece_status'[i]>> \in
                     {<<"Missing", "InProgress">>, <<"InProgress", "Have">>,
                      <<"InProgress", "Missing">>}]_vars

\* A piece was stored, another is being downloaded, and a session gave one back.
C4_Witness ==
    /\ DownloadedInRun
    /\ \E i, j \in Pieces :
          piece_status[i] = "Have" /\ piece_status[j] = "InProgress"
    /\ \E s \in Sessions : outcome[s] \in {"hash_mismatch", "read_err"}

C6_FailureClosesAndReleases ==
    [][\A s \in Sessions :
         (Live(s) /\ outcome'[s] \in SessionFailures /\ outcome'[s] # outcome[s]) =>
             /\ pc'[s] = "closed"
             /\ \A i \in current_piece_idx[s] : piece_status'[i] = "Missing"]_vars

(* C7: when a session terminates, its endpoint leaves the connected-set.   *)
C7_TerminationRemovesEndpoint ==
    [][\A s \in Sessions :
         (pc[s] \in Running /\ pc'[s] = "closed") =>
             addr[s] \notin connected_peers']_vars

(* C8: when run starts with every piece Have and downloaded_bytes equal to *)
(* total_length, no session gets as far as connecting to a peer.           *)
C8_ResumeCompleteNoConnect ==
    (/\ mgr # "init"
     /\ request_left = 0
     /\ downloaded_bytes = total_length
     /\ AllHave(piece_status))
        => \A s \in Sessions : pc[s] \in {"unspawned", "permit"}

(* C9: once the manager has observed the interrupt, the stop has been      *)
(* broadcast: every running session's receiver holds it.                   *)
C9_InterruptBroadcastsStop ==
    mgr = "interrupted" => \A s \in Sessions : pc[s] \in Running => rx[s]

(* C10: the step in which the last piece becomes Have sends a value on the *)
(* completion broadcast channel, which the manager's receiver then holds.  *)
C10_LastPieceSendsCompletion ==
    [][(/\ mgr = "running"
        /\ ~AllHave(piece_status)
        /\ AllHave(piece_status'))
          => completion_rx']_vars

(* C11: once a value has been sent on the completion broadcast channel,    *)
(* every session task eventually ends.                                     *)
C11_CompletionStopsAllSessions ==
    CompletionReported ~> (\A s \in Sessions : pc[s] \notin Running)

\* The session tasks that hold a permit: they are connecting or connected.
Connected ==
    Cardinality({s \in Sessions : pc[s] \in {"connecting", "loop"}}) + others

(* C12: at most 50 session tasks are connecting or connected; each of them *)
(* holds one permit, a task that has ended holds none, and a task that     *)
(* waits for a permit has not begun to connect.                            *)
C12_AtMostFiftyConnected ==
    /\ Connected <= 50
    /\ permits >= 0
    /\ Connected + permits = SemaphorePermits

\* 50 tasks are connected, one has ended, and a session waits for a permit.
C12_Witness ==
    /\ permits = 0
    /\ Connected = 50
    /\ \E s, t \in Sessions :
          /\ pc[s] = "permit"
          /\ pc[t] = "closed" /\ outcome[t] = "read_err"

(* C13: no two session tasks that have not ended have the same endpoint,   *)
(* and the manager's step that takes a candidate whose endpoint is in the  *)
(* connected-set spawns nothing.                                           *)
C13_OneSessionPerEndpoint ==
    [][/\ \A s, t \in Sessions :
            (s # t /\ pc'[s] \in Running /\ pc'[t] \in Running) =>
                addr'[s] # addr'[t]
       /\ (/\ peer_rx # <<>>
           /\ peer_rx' = Tail(peer_rx)
           /\ Head(peer_rx) \in connected_peers)
              => /\ handles' = handles
                 /\ pc' = pc
                 /\ addr' = addr
                 /\ connected_peers' = connected_peers]_vars

\* A duplicate of a running session's endpoint waits in the channel; an
\* earlier session for that endpoint has ended and the endpoint was retried.
C13_Witness ==
    \E s, t \in Sessions :
        /\ pc[s] \in Running /\ pc[t] = "closed" /\ addr[t] = addr[s]
        /\ peer_rx # <<>> /\ Head(peer_rx) = addr[s]
        /\ addr[s] \in connected_peers

(* C14: a session task holds at most one mutex at a time, and none while   *)
(* it reads from or writes to the network.                                 *)
C14_OneMutexNoNetwork ==
    \A s \in Sessions :
        /\ Cardinality(held[s]) <= 1
        /\ at[s] \in NetworkIO => held[s] = {}

(* C15: read_message returns the message the earliest unread send_message  *)
(* was called with, and leaves on the stream exactly the bytes written for *)
(* the later ones.                                                         *)
C15_FramingRoundTrip ==
    [][(read_message /\ written # <<>>) =>
           /\ msg' = <<Head(written)>>
           /\ stream' = Frames(Tail(written))]_vars

\* The reply is 68 bytes that start with 19 and "BitTorrent protocol" and
\* carry the info hash that was sent at bytes 28..48.
GoodReply ==
    /\ Len(response) = 68
    /\ response[1] = 19
    /\ \A i \in 1 .. 19 : response[1 + i] = ProtocolString[i]
    /\ \A i \in 1 .. 20 : response[28 + i] = info_hash[i]

(* C16: after connect has read a reply, there is a connection exactly when *)
(* the reply is good; the connection then has peer_choking true,           *)
(* peer_interested false, an empty bitfield and the id of bytes 48..68,    *)
(* and otherwise connect returned an error.                                *)
C16_HandshakeValidation ==
    response # <<>> =>
        IF GoodReply
        THEN /\ Len(peer) = 1
             /\ peer[1].peer_choking /\ ~peer[1].peer_interested
             /\ peer[1].bitfield = <<>>
             /\ \A i \in 1 .. 20 : peer[1].peer_id[i] = response[48 + i]
             /\ msg = <<>>
        ELSE peer = <<>> /\ msg = <<Err>>

\* A good reply from the second remote was accepted.
C16_Witness ==
    /\ response # <<>> /\ GoodReply
    /\ Len(peer) = 1 /\ peer[1].peer_id = RemoteIds[2]

\* The pieces 0 .. MaxIndex that has_piece reports for a bitfield.
PiecesOf(bf) == {i \in 0 .. MaxIndex : has_piece(bf, i)}

(* C17: a read changes the connection by the message it returns: Choke and *)
(* Unchoke set peer_choking, Interested and NotInterested set              *)
(* peer_interested, Have(i) sets bit i, grows the bitfield to hold it and  *)
(* keeps every other bit, Bitfield replaces the bitfield, and any other    *)
(* message (or a failed read) leaves the connection as it was.             *)
C17_ReadUpdatesConnection ==
    [][read_message =>
        LET c == peer[1]
            c2 == peer'[1]
            m == msg'[1]
        IN  CASE m.kind = "Choke" -> c2 = [c EXCEPT !.peer_choking = TRUE]
              [] m.kind = "Unchoke" -> c2 = [c EXCEPT !.peer_choking = FALSE]
              [] m.kind = "Interested" -> c2 = [c EXCEPT !.peer_interested = TRUE]
              [] m.kind = "NotInterested" ->
                     c2 = [c EXCEPT !.peer_interested = FALSE]
              [] m.kind = "Have" ->
                     /\ c2.peer_id = c.peer_id
                     /\ c2.peer_choking = c.peer_choking
                     /\ c2.peer_interested = c.peer_interested
                     /\ PiecesOf(c2.bitfield) = PiecesOf(c.bitfield) \cup {m.index}
                     /\ Len(c2.bitfield) =
                            IF m.index \div 8 < Len(c.bitfield)
                            THEN Len(c.bitfield) ELSE (m.index \div 8) + 1
                     /\ \A k \in 1 .. Len(c.bitfield) :
                            k # (m.index \div 8) + 1 => c2.bitfield[k] = c.bitfield[k]
              [] m.kind = "Bitfield" -> c2 = [c EXCEPT !.bitfield = m.data]
              [] OTHER -> c2 = c]_vars

\* Have(0) was read on a connection whose bitfield already had bits set
\* in both bytes, and they are all still there.
C17_Witness ==
    /\ Len(peer) = 1 /\ msg = <<Have(0)>>
    /\ peer[1].bitfield = <<129, 64>>
    /\ ~peer[1].peer_choking /\ peer[1].peer_interested

\* 1 when has_piece reports piece i of bf, else 0.
BitOf(bf, i) == IF has_piece(bf, i) THEN 1 ELSE 0

\* The Have set of a PieceMap, as 0-based piece indexes.
HaveOf(st) == {i \in 0 .. Len(st) - 1 : st[i + 1] = "Have"}

(* C18: the bitmap is MSB-first. Every byte of the peer bitfield is the    *)
(* sum of 2^(7 - i mod 8) over the pieces i of that byte that has_piece    *)
(* reports, has_piece is false beyond the last byte, the bitfield          *)
(* [0b10000000, 0b00000001] holds pieces 0 and 15 only, and the Bitfield   *)
(* emitted from a PieceMap, once read back, gives its Have set.            *)
C18_MsbFirstBitmap ==
    /\ PiecesOf(<<128, 1>>) = {0, 15}
    /\ Len(peer) = 1 =>
         LET bf == peer[1].bitfield
         IN  /\ \A k \in 1 .. Len(bf) :
                    bf[k] = 128 * BitOf(bf, 8 * (k - 1)) + 64 * BitOf(bf, 8 * (k - 1) + 1)
                          + 32 * BitOf(bf, 8 * (k - 1) + 2) + 16 * BitOf(bf, 8 * (k - 1) + 3)
                          + 8 * BitOf(bf, 8 * (k - 1) + 4) + 4 * BitOf(bf, 8 * (k - 1) + 5)
                          + 2 * BitOf(bf, 8 * (k - 1) + 6) + BitOf(bf, 8 * (k - 1) + 7)
             /\ \A i \in 0 .. MaxIndex : i >= 8 * Len(bf) => ~has_piece(bf, i)
             /\ (/\ emitted # <<>> /\ stream = <<>>
                 /\ msg # <<>> /\ msg[1].kind = "Bitfield")
                    => PiecesOf(bf) = HaveOf(emitted[1])

\* The Bitfield emitted from a PieceMap with pieces 0 and 9 was read back.
C18_Witness ==
    /\ Len(peer) = 1 /\ emitted # <<>> /\ stream = <<>>
    /\ msg # <<>> /\ msg[1].kind = "Bitfield"
    /\ HaveOf(emitted[1]) = {0, 9}
    /\ has_piece(peer[1].bitfield, 9) /\ ~has_piece(peer[1].bitfield, 14)

\* The session comes out of a step with a piece it did not hold before.
Claims(s, i) ==
    /\ current_piece_idx'[s] = {i}
    /\ current_piece_idx[s] # {i}

\* The session comes out of a step in which its Requests could not be sent.
RequestFailed(s) ==
    /\ outcome'[s] = "request_send_err"
    /\ outcome[s] # "request_send_err"

(* C19: a piece that goes from Missing to InProgress was claimed by a live *)
(* session whose peer does not choke it and has the piece; a session that  *)
(* claims a piece, or whose Requests fail, took a Missing piece its peer   *)
(* has while unchoked and without a current piece; and a session whose     *)
(* peer has none of the Missing pieces claims nothing and sends nothing.   *)
C19_SelectionClaimsAvailable ==
    [][/\ \A i \in Pieces :
            (piece_status[i] = "Missing" /\ piece_status'[i] = "InProgress") =>
                \E s \in Sessions :
                    /\ pc[s] = "loop" /\ Claims(s, i)
                    /\ ~peer_choking'[s] /\ i \in bitfield'[s]
       /\ \A s \in Sessions : \A i \in Pieces :
            Claims(s, i) =>
                /\ piece_status[i] = "Missing" /\ piece_status'[i] = "InProgress"
                /\ ~peer_choking'[s] /\ i \in bitfield'[s]
                /\ \A j \in current_piece_idx[s] : piece_status'[j] # "InProgress"
       /\ \A s \in Sessions :
            RequestFailed(s) =>
                /\ ~peer_choking'[s] /\ current_piece_idx'[s] = {}
                /\ \E i \in bitfield'[s] :
                      /\ piece_status'[i] = "Missing"
                      /\ piece_status[i] = "Missing" \/ i \in current_piece_idx[s]
       /\ \A s \in Sessions :
            (\A i \in bitfield'[s] :
                piece_status[i] # "Missing" /\ i \notin current_piece_idx[s]) =>
                /\ current_piece_idx'[s] \subseteq current_piece_idx[s]
                /\ ~RequestFailed(s)
                /\ \A i \in Pieces : ~Claims(s, i)]_vars

\* An unchoked session without a piece whose peer has pieces but none of
\* the Missing ones, while another session holds a piece it claimed.
C19_Witness ==
    \E s, t \in Sessions :
        /\ s # t
        /\ pc[s] = "loop" /\ ~peer_choking[s] /\ current_piece_idx[s] = {}
        /\ bitfield[s] # {}
        /\ \E i \in Pieces : piece_status[i] = "Missing"
        /\ \A i \in bitfield[s] : piece_status[i] # "Missing"
        /\ pc[t] = "loop" /\ current_piece_idx[t] # {}
        /\ \A i \in current_piece_idx[t] : piece_status[i] = "InProgress"

(* C20: a Request of more than 131072 bytes is dropped: no Piece is sent,  *)
(* the limiter and uploaded_bytes stay as they were and the session goes   *)
(* on; a Request of exactly 131072 bytes for a piece that is Have is       *)
(* answered with a Piece.                                                  *)
C20_RequestLengthLimit ==
    [][(seeding # <<>> /\ served' # <<>>) =>
        LET r == served'[1]
        IN  /\ r.length > 131072 =>
                  /\ ~r.piece /\ r.open
                  /\ upload_limiter' = upload_limiter
                  /\ uploaded_bytes' = uploaded_bytes
            /\ (r.length = 131072 /\ WeHave(seeding[1], r.index)) => r.piece]_vars

(* C21: from the creation of a bucket on, what its consume calls took in   *)
(* all is at most capacity + refill_rate * (time since creation), and the  *)
(* bucket never holds more than capacity.                                  *)
C21_TokenBucketBound ==
    bucket # <<>> =>
        /\ tally.consumed <=
              bucket[1].capacity + bucket[1].refill_rate * (now - tally.created)
        /\ bucket[1].tokens <= bucket[1].capacity
        /\ bucket[1].tokens >= 0

\* The bound is reached some time after the creation.
C21_Witness ==
    /\ bucket # <<>> /\ now > tally.created + 1
    /\ tally.consumed =
          bucket[1].capacity + bucket[1].refill_rate * (now - tally.created)

\* The bucket is as new() made it and consume was never called.
Fresh == bucket # <<>> /\ took = <<>>

\* No tokens were taken since a consume emptied the bucket, and the time
\* since then suffices to refill `amount` tokens.
RefilledFor(amount) ==
    /\ bucket # <<>> /\ tally.emptied # <<>>
    /\ (now - tally.emptied[1]) * bucket[1].refill_rate >= amount

\* The first two parts of C22: consume(capacity) on a fresh bucket, and a
\* consume of a positive amount at the instant the bucket was emptied.
FreshThenEmpty ==
    /\ (Fresh /\ took'[1].amount = bucket[1].capacity) => took'[1].ok
    /\ (/\ bucket # <<>> /\ tally.emptied = <<now>>
        /\ took'[1].amount > 0)
          => /\ ~took'[1].ok
             /\ bucket'[1].tokens = bucket[1].tokens
             /\ tally'.consumed = tally.consumed

(* C22 as stated: on a fresh bucket consume(capacity) succeeds, a consume  *)
(* of a positive amount right after it fails and deducts nothing, and once *)
(* amount / refill_rate has elapsed since the bucket was emptied           *)
(* consume(amount) succeeds.                                               *)
C22_AsStated ==
    [][(\E amount \in Amounts : consume(amount)) =>
        /\ FreshThenEmpty
        /\ RefilledFor(took'[1].amount) => took'[1].ok]_vars

(* C22, with the amount within the capacity of the bucket: on a fresh      *)
(* bucket consume(capacity) succeeds, a consume of a positive amount right *)
(* after it fails and deducts nothing, and once amount / refill_rate has   *)
(* elapsed since the bucket was emptied consume(amount) succeeds for every *)
(* amount <= capacity.                                                     *)
C22_RefillWithinCapacity ==
    [][(\E amount \in Amounts : consume(amount)) =>
        /\ FreshThenEmpty
        /\ (RefilledFor(took'[1].amount) /\ took'[1].amount <= bucket[1].capacity)
              => took'[1].ok]_vars

\* After consume(capacity) emptied the fresh bucket, a later consume of a
\* positive amount succeeded.
C22_Witness ==
    /\ bucket # <<>> /\ took # <<>>
    /\ took[1].ok /\ took[1].amount > 1
    /\ tally.consumed = bucket[1].capacity + took[1].amount
    /\ now = tally.created + 1

\* a comes before b in lexicographic byte order.
Precedes(a, b) ==
    \/ Len(a) < Len(b) /\ \A k \in 1 .. Len(a) : a[k] = b[k]
    \/ \E k \in 1 .. Len(a) :
          /\ k <= Len(b) /\ a[k] < b[k]
          /\ \A j \in 1 .. (k - 1) : a[j] = b[j]

\* Every mapping in v has its entries in strictly increasing key order.
RECURSIVE KeysIncreasing(_)
KeysIncreasing(v) ==
    /\ v.tag = "Dict" =>
          \A k \in 1 .. (Len(v.items) - 1) : Precedes(v.items[k][1], v.items[k + 1][1])
    /\ v.tag = "List" => \A k \in 1 .. Len(v.items) : KeysIncreasing(v.items[k])
    /\ v.tag = "Dict" => \A k \in 1 .. Len(v.items) : KeysIncreasing(v.items[k][2])

(* C26: decode(encode(v)) = v with the cursor at the end of the encoding,  *)
(* for integers, byte strings, lists and mappings; encode emits the        *)
(* entries of every mapping in strictly increasing key order, as in        *)
(* "d1:ai1e1:b1:ce" for the entries b -> "c" and a -> 1.                   *)
C26_CodecRoundTrip ==
    /\ encode(BDict(FromEntries(<<<<<<98>>, BBytes(<<99>>)>>, <<<<97>>, BInt(1)>>>>)))
          = <<100, 49, 58, 97, 105, 49, 101, 49, 58, 98, 49, 58, 99, 101>>
    /\ value # <<>> => KeysIncreasing(value[1])
    /\ decoded # <<>> =>
          /\ decoded[1].ok
          /\ decoded[1].val = value[1]
          /\ decoded[1].pos = Len(encoded)

\* A mapping of three entries, one of them a mapping, was encoded and
\* decoded.
C26_Witness ==
    /\ value # <<>> /\ decoded # <<>>
    /\ value[1].tag = "Dict" /\ Len(value[1].items) = 3
    /\ \E k \in 1 .. 3 : value[1].items[k][2].tag = "Dict"
    /\ decoded[1].ok /\ decoded[1].pos = Len(encoded)

(* C23: whatever resolve returns, and whatever a fetch puts on the channel *)
(* to resolve, is a buffer whose SHA-1 is the info hash; a fetch whose     *)
(* buffer has another hash has failed.                                     *)
C23_OnlyVerifiedMetadata ==
    /\ \A k \in 1 .. Len(result) : Sha1Of(result[k]) = MagnetHash
    /\ \A k \in 1 .. Len(metadata_rx) : Sha1Of(metadata_rx[k]) = MagnetHash
    /\ resolve_at = "ok" => result = <<InfoDict>>
    /\ \A p \in MetaPeers :
          fetch[p].pc \in {"sending", "done"} => fetch[p].metadata = InfoDict

\* resolve returned the metadata of one peer, and the buffer another peer
\* filled with as many pieces as it announced was dropped.
C23_Witness ==
    /\ resolve_at = "ok" /\ result = <<InfoDict>>
    /\ \E p \in MetaPeers :
          /\ fetch[p].pc = "failed"
          /\ fetch[p].received_pieces = 2 /\ fetch[p].num_pieces = 2

(* C24: the extension handshake of a fetch decodes to a mapping whose m    *)
(* mapping binds ut_metadata to the integer 2.                             *)
C24_MetadataHandshakeId ==
    sent_ext # <<>> =>
        LET root == decode(sent_ext, 0)
            m == IF root.ok /\ root.val.tag = "Dict"
                 THEN get(root.val.items, Key_m) ELSE <<>>
        IN  /\ root.ok /\ root.val.tag = "Dict"
            /\ Len(m) = 1 /\ m[1].tag = "Dict"
            /\ get(m[1].items, Key_ut_metadata) = <<BInt(2)>>

(* C25: resolve returns: with the metadata of a fetch, or with the timeout *)
(* error once the deadline has passed; and it returns the timeout only     *)
(* then.                                                                   *)
C25_ResolveTerminates ==
    /\ <>(resolve_at # "loop")
    /\ [](resolve_at = "timeout" => timer >= Deadline)
    /\ [](resolve_at = "ok" => result # <<>>)

\* resolve returned the timeout error while a fetch was still going on
\* and another had the verified metadata ready to send.
C25_Witness ==
    /\ resolve_at = "timeout"
    /\ \E p, q \in MetaPeers :
          fetch[p].pc = "download" /\ fetch[q].pc = "sending"

\* The peer id a handshake carries: its bytes 48 .. 67.
PeerIdOf(h) == SubSeq(h, 49, 68)

(* C27: every handshake written, by a session or by a metadata fetch,      *)
(* carries a 20-byte peer id whose first 8 bytes are -TD0001-.             *)
C27_TaggedPeerId ==
    \A k \in 1 .. Len(handshakes) :
        /\ Len(PeerIdOf(handshakes[k].bytes)) = 20
        /\ SubSeq(PeerIdOf(handshakes[k].bytes), 1, 8) = Tag

(* C28: once a session has ended on a piece that failed hash verification, *)
(* the manager starts no new session to the endpoint of that session.      *)
C28_MismatchBlacklists ==
    [][\A t \in Sessions :
          (handles' = t /\ handles = t - 1) =>
              \A s \in Sessions :
                  outcome[s] = "hash_mismatch" => addr'[t] # addr[s]]_vars

\* The session saw a piece that is Have when it looked at the PieceMap.
SawHave == seen # <<>> /\ \E i \in 1 .. NumStatus : seen[1][i] = "Have"

\* The calls of send_message the entry makes before Interested.
BeforeInterested == IF SawHave THEN 1 ELSE 0

(* C29: the calls of send_message of a session begin with the Bitfield of  *)
(* the PieceMap if the session saw a piece that is Have and with no        *)
(* Bitfield otherwise, then Interested, then the extension handshake (id   *)
(* 0), each made only after the one before it succeeded; the loop is       *)
(* entered, and any Request sent, only after these.                        *)
C29_EntryOrder ==
    LET n == Len(sends)
        b == BeforeInterested
    IN  /\ seen = <<>> => (n = 0 /\ entry_at = "connected")
        /\ seen # <<>> =>
              /\ SawHave => (n >= 1 /\ sends[1].msg = Bitfield(EmitBitfield(seen[1])))
              /\ \A k \in 1 .. n : sends[k].msg.kind = "Bitfield" => (SawHave /\ k = 1)
              /\ n >= b + 1 =>
                    /\ sends[b + 1].msg = Interested
                    /\ \A k \in 1 .. b : sends[k].ok
              /\ n >= b + 2 =>
                    /\ sends[b + 2].msg.kind = "Extended" /\ sends[b + 2].msg.id = 0
                    /\ sends[b + 1].ok
              /\ \A k \in 1 .. n :
                    sends[k].msg.kind \in {"Request", "Piece"} => k > b + 2
              /\ entry_at = "loop" => n >= b + 2

\* A session that sent all three entry messages and then a Request.
C29_Witness ==
    /\ SawHave /\ Len(sends) = 4 /\ entry_at = "loop"
    /\ sends[1].msg.kind = "Bitfield" /\ sends[2].msg = Interested
    /\ sends[3].msg.kind = "Extended" /\ ~sends[3].ok
    /\ sends[4].msg.kind = "Request" /\ sends[4].ok

(* C30: the extension handshake of a session decodes to a mapping whose m  *)
(* mapping holds an integer id for ut_pex and an integer id for            *)
(* ut_metadata.                                                            *)
C30_SessionHandshakeIds ==
    \A k \in 1 .. Len(sends) :
        (sends[k].msg.kind = "Extended" /\ sends[k].msg.id = 0) =>
            LET root == decode(sends[k].msg.data, 0)
                m == IF root.ok /\ root.val.tag = "Dict"
                     THEN get(root.val.items, Key_m) ELSE <<>>
                pex == IF Len(m) = 1 /\ m[1].tag = "Dict"
                       THEN get(m[1].items, Key_ut_pex) ELSE <<>>
                meta == IF Len(m) = 1 /\ m[1].tag = "Dict"
                        THEN get(m[1].items, Key_ut_metadata) ELSE <<>>
            IN  /\ Len(pex) = 1 /\ pex[1].tag = "Int"
                /\ Len(meta) = 1 /\ meta[1].tag = "Int"

\* The length of piece i of torrent t as the specification gives it.
LengthOf(t, i) ==
    IF i = PieceCount(t) - 1
    THEN ((t.total_length - 1) % t.piece_length) + 1
    ELSE t.piece_length

(* C31: while the task holds a piece i, the Requests it sent for it are    *)
(* for piece i, start at 0, each begins where the one before ends, all but *)
(* the last are of 16384 bytes and the last, of at most 16384, ends at the *)
(* length of piece i; the buffer has that length and blocks_total is the   *)
(* number of Requests.                                                     *)
C31_RequestsPartition ==
    task.current_piece_idx # <<>> =>
        LET i == task.current_piece_idx[1]
            n == Len(requested)
            len_i == LengthOf(torrent[1], i)
        IN  /\ n >= 1
            /\ requested[1].begin = 0
            /\ \A k \in 1 .. n :
                  /\ requested[k].index = i
                  /\ requested[k].length > 0 /\ requested[k].length <= block_size
            /\ \A k \in 1 .. (n - 1) :
                  /\ requested[k].length = block_size
                  /\ requested[k + 1].begin = requested[k].begin + requested[k].length
            /\ requested[n].begin + requested[n].length = len_i
            /\ task.data_len = len_i
            /\ task.blocks_total = n

\* The task holds a last piece of 16385 bytes: two Requests, the last of 1.
C31_Witness ==
    /\ task.current_piece_idx = <<1>> /\ task.data_len = 16385
    /\ Len(requested) = 2 /\ requested[2].begin = 16384 /\ requested[2].length = 1
    /\ task.blocks_received = 1

C40_HashOnFilledBuffer ==
    hashed # <<>> =>
        LET h == hashed[1]
        IN  /\ \A k \in 1 .. Len(h.requested) :
                  \E j \in 1 .. Len(h.data) :
                      /\ h.data[j].begin = h.requested[k].begin
                      /\ h.data[j].len = h.requested[k].length
            /\ Filled(h.data, h.data_len)

C36_FileAccessAtomic ==
    \A t \in Tasks :
        at[t] \in FileIO =>
            /\ "file" \in held[t]
            /\ \A u \in Tasks \ {t} : at[u] \notin FileIO

\* One session has sought and is reading a block from the file while the
\* other, with a verified piece to write, waits for the guard.
C36_Witness ==
    \E s, t \in Sessions :
        /\ s # t
        /\ at[s] = "L246" /\ "file" \in held[s]
        /\ at[t] = "L289" /\ held[t] = {}


\* The order in which the code takes mutexes one inside the other.
LockOrder ==
    <<"downloader", "file", "piece_status", "downloaded_bytes",
      "uploaded_bytes", "upload_limiter", "connected_peers">>

Rank(m) == CHOOSE k \in 1 .. Len(LockOrder) : LockOrder[k] = m

\* The edges a task would take now, and the mutexes they lock.
Wanted(t) == {e \in TaskFlow(t) : at[t] = e[1] /\ Ready(t, e)}
NextLocks(t) == UNION {e[3] \cup e[5] : e \in {f \in TaskFlow(t) : at[t] = f[1]}}

Waiting(t) == Wanted(t) # {} /\ CanTake(t) = {}

Holders(t) ==
    {u \in Tasks \ {t} :
        \E e \in Wanted(t) : (e[3] \cup e[5]) \cap held[u] # {}}

WaitOnEachOther(D) ==
    /\ D # {}
    /\ \A t \in D : Waiting(t) /\ Holders(t) \subseteq D

(* C37: a task that holds a mutex locks only mutexes later in the order    *)
(* file, PieceMap, downloaded_bytes, and no set of sessions, resume scan   *)
(* and status reader is ever such that each waits for a mutex that only    *)
(* members of the set hold.                                                *)
C37_NoDeadlock ==
    /\ \A t \in Tasks : \A m \in NextLocks(t) : \A h \in held[t] :
           Rank(h) < Rank(m)
    /\ \A D \in SUBSET Tasks : ~WaitOnEachOther(D)

\* A session that holds the file and the PieceMap is about to lock
\* downloaded_bytes while the other session waits for the file and
\* get_status, holding the state's mutex, has yet to lock the counter.
C37_Witness ==
    \E s, t \in Sessions :
        /\ at[s] = "L303" /\ held[s] = {"file", "piece_status"}
        /\ s # t /\ Waiting(t) /\ s \in Holders(t)
        /\ at[StatusTask] = "G110"


(* C38: a session that holds a permit and is in PeerConnection::connect    *)
(* comes out of it, with a connection or with an error (and then without   *)
(* its permit), whatever the remote does after accepting the connection.   *)
C38_ConnectReturns ==
    \A s \in Sessions :
        (pc[s] \in {"connecting", "handshake"}) ~> (pc[s] \in {"loop", "closed"})


(* C39: a piece that is InProgress is later Have or Missing again, also    *)
(* when the peer chokes after the Requests or sends only other messages.   *)
C39_InProgressEnds ==
    \A i \in Pieces :
        (piece_status[i] = "InProgress") ~> (piece_status[i] # "InProgress")


(* C35: a fetch that waits for metadata pieces takes the Extended messages *)
(* that arrive under the id of its own handshake, 2, whatever id the peer  *)
(* advertised for its side.                                                *)
C35_OwnIdAccepted ==
    ext_rx # <<>> => (ext_rx[1].id = OwnMetadataId => ext_rx[1].taken)


(* C34: a session that waits on the upload limiter to serve a Request      *)
(* comes to send the Piece, also when other sessions take tokens from the  *)
(* same bucket.                                                            *)
C34_LimiterWaitEnds ==
    \A s \in Sessions :
        (serving[s].at \in {"L231", "L234"}) ~> (serving[s].at = "L239")

====
